---- MODULE Spec2Model ----
(***************************************************************************)
(* Contrast Detective: the contrast-analysis pipeline                      *)
(* (src/services/contrastAnalyzer.ts, duplicated verbatim at the end of    *)
(* src/popup.js), the popup's threshold filter and the React display's     *)
(* threshold filter; the severity score, simpleKMeans pass by pass, the    *)
(* colour sampler, the blocks of gridAnalysis taken in any order, the     *)
(* DOM-based variant analyzeDOMElements (src/unnamed/part_000), the loops  *)
(* of gridAnalysis step by step, the popup's zoom, pan and drag handlers,  *)
(* and the state of the React popup (src/App.tsx).                         *)
(*                                                                         *)
(* Numbers.  JavaScript numbers are IEEE doubles; TLC has bounded integers.*)
(* Linear channel values are kept in units of 10^-5, relative luminance in *)
(* units of 10^-6, contrast ratios and thresholds in thousandths (a ratio  *)
(* is floored to the thousandth, which preserves every comparison against  *)
(* a threshold that is a whole number of thousandths), severity scores in  *)
(* thousandths.  Colour channels are the integers 0..255 of the source.    *)
(***************************************************************************)
EXTENDS Integers, Sequences, FiniteSets, TLC

VARIABLES
    \* --- getContrastRatio applied to a pair of colours ---
    rgb1, rgb2, ratioFwd, ratioRev, pairResults, evalPc,
    \* --- gridAnalysis applied to a bitmap, and the consumers' filters ---
    imageData, blockSize, results, gridPc,
    contrastThreshold, shownRedraw, shownAnalyze, shownDisplay,
    \* --- popup.js: state variables ---
    currentZoom, currentScreenshot, imagePosition,
    currentThreshold, allWarnings, filteredWarnings,
    \* --- popup.js: the page (DOM) and window.originalImageData ---
    analyzeBtn, resultsDiv, thresholdControls, canvasWarnings, originalImageData,
    \* --- popup.js: the click handler in flight ---
    clickPc, dataUrl,
    \* --- popup.js: drag state and the content of screenshotContainer ---
    isDragging, dragStart, screenshotContainer,
    \* --- uiContrastViolationScore applied to a pair of ratios ---
    scoreRatio1, scoreRatio2, score1, score2, scorePc,
    \* --- simpleKMeans, one loop iteration per step ---
    kmInput, kmColors, kmK, kmCentroids, kmIteration, kmBroke, kmReturned, kmPc,
    \* --- extractDominantColors and analyzeUIRegion applied to a region ---
    regionImage, regionRect, sampled, regionOutcome, regionPc,
    \* --- the blocks of gridAnalysis evaluated in any order ---
    pendingBlocks, collected, sortedResults, workerPc,
    \* --- analyzeDOMElements applied to a document ---
    domDocument, domReturned, domPc,
    \* --- the two for loops of gridAnalysis, one test or one body per step ---
    scanX, scanY, visited, passedRegions, scanResults, scanPc,
    \* --- App.tsx: state (results is above) and the promises in flight ---
    imageUrl, isLoading, error, queriesPending, capturesPending, analysesPending

evalVars == <<rgb1, rgb2, ratioFwd, ratioRev, pairResults, evalPc>>
gridVars == <<imageData, blockSize, results, gridPc,
              contrastThreshold, shownRedraw, shownAnalyze, shownDisplay>>
popupVars == <<currentZoom, currentScreenshot, imagePosition,
               currentThreshold, allWarnings, filteredWarnings,
               analyzeBtn, resultsDiv, thresholdControls, canvasWarnings,
               originalImageData, clickPc, dataUrl,
               isDragging, dragStart, screenshotContainer>>
scoreVars == <<scoreRatio1, scoreRatio2, score1, score2, scorePc>>
kmVars == <<kmInput, kmColors, kmK, kmCentroids, kmIteration, kmBroke, kmReturned, kmPc>>
regionVars == <<regionImage, regionRect, sampled, regionOutcome, regionPc>>
workerVars == <<pendingBlocks, collected, sortedResults, workerPc>>
domVars == <<domDocument, domReturned, domPc>>
scanVars == <<scanX, scanY, visited, passedRegions, scanResults, scanPc>>
appVars == <<imageUrl, isLoading, error, queriesPending, capturesPending,
             analysesPending>>
moreVars == <<scanVars, appVars>>
unitVars == <<scoreVars, kmVars, regionVars, workerVars, domVars, moreVars>>
vars == <<evalVars, gridVars, popupVars, unitVars>>

\* A value that may be null (AnalysisResult[] | null): null is the empty
\* tuple, an array a is the one-element tuple <<a>>.
Null == <<>>
NonNull(a) == <<a>>
ValueOf(o) == o[1]

(***************************************************************************)
(* Colours                                                                 *)
(***************************************************************************)
RGB(r, g, b) == [r |-> r, g |-> g, b |-> b]

(***************************************************************************)
(* WCAG contrast calculation                                               *)
(***************************************************************************)

\* Math.pow((c + 0.055) / 1.055, 2.4) for c = component / 255, in units of
\* 10^-5, rounded to nearest; entry component + 1.  (The entries of the
\* components 0..10 are those of the linear branch and are not read.)
PowTable == <<
    0, 30, 61, 91, 121, 152, 182, 212,
    243, 273, 304, 335, 368, 402, 439, 478,
    518, 561, 605, 651, 700, 750, 802, 857,
    913, 972, 1033, 1096, 1161, 1229, 1298, 1370,
    1444, 1521, 1600, 1681, 1764, 1850, 1938, 2029,
    2122, 2217, 2315, 2416, 2519, 2624, 2732, 2843,
    2956, 3071, 3190, 3310, 3434, 3560, 3689, 3820,
    3955, 4092, 4231, 4374, 4519, 4667, 4817, 4971,
    5127, 5286, 5448, 5613, 5781, 5951, 6125, 6301,
    6480, 6663, 6848, 7036, 7227, 7421, 7619, 7819,
    8022, 8228, 8438, 8650, 8866, 9084, 9306, 9531,
    9759, 9990, 10224, 10462, 10702, 10946, 11193, 11444,
    11697, 11954, 12214, 12477, 12744, 13014, 13287, 13563,
    13843, 14126, 14413, 14703, 14996, 15293, 15593, 15896,
    16203, 16513, 16827, 17144, 17465, 17789, 18116, 18447,
    18782, 19120, 19462, 19807, 20156, 20508, 20864, 21223,
    21586, 21953, 22323, 22697, 23074, 23455, 23840, 24228,
    24620, 25016, 25415, 25818, 26225, 26636, 27050, 27468,
    27889, 28315, 28744, 29177, 29614, 30054, 30499, 30947,
    31399, 31855, 32314, 32778, 33245, 33716, 34191, 34670,
    35153, 35640, 36131, 36625, 37124, 37626, 38133, 38643,
    39157, 39676, 40198, 40724, 41254, 41789, 42327, 42869,
    43415, 43966, 44520, 45079, 45641, 46208, 46778, 47353,
    47932, 48515, 49102, 49693, 50289, 50888, 51492, 52100,
    52712, 53328, 53948, 54572, 55201, 55834, 56471, 57112,
    57758, 58408, 59062, 59720, 60383, 61050, 61721, 62396,
    63076, 63760, 64448, 65141, 65837, 66539, 67244, 67954,
    68669, 69387, 70110, 70838, 71569, 72306, 73046, 73791,
    74540, 75294, 76052, 76815, 77582, 78354, 79130, 79910,
    80695, 81485, 82279, 83077, 83880, 84687, 85499, 86316,
    87137, 87962, 88792, 89627, 90466, 91310, 92158, 93011,
    93869, 94731, 95597, 96469, 97345, 98225, 99110, 100000
>>

\* sRGBToLinear(component), in units of 10^-5.
\* c <= 0.03928 with c = component / 255 is component * 100000 <= 3928 * 255;
\* c / 12.92 is component * 10^7 / (255 * 1292) in units of 10^-5.
sRGBToLinear(component) ==
    IF component * 100000 <= 3928 * 255
    THEN (2 * component * 10000000 + 255 * 1292) \div (2 * 255 * 1292)
    ELSE PowTable[component + 1]

\* getRelativeLuminance(r, g, b), in units of 10^-6.
getRelativeLuminance(r, g, b) ==
    LET R == sRGBToLinear(r)
        G == sRGBToLinear(g)
        B == sRGBToLinear(b)
    IN (2126 * R + 7152 * G + 722 * B) \div 1000

Max(a, b) == IF a >= b THEN a ELSE b
Min(a, b) == IF a <= b THEN a ELSE b

\* A bug getContrastRatio could have: the identical-colours shortcut missing.
getContrastRatioNoShortcut(c1, c2) ==
    LET l1 == getRelativeLuminance(c1.r, c1.g, c1.b)
        l2 == getRelativeLuminance(c2.r, c2.g, c2.b)
        lighter == Max(l1, l2)
        darker == Min(l1, l2)
    IN ((lighter + 50000) * 1000) \div (darker + 50000)

\* A bug getContrastRatio could have: l1 over l2 without ordering them.
getContrastRatioUnordered(c1, c2) ==
    IF c1.r = c2.r /\ c1.g = c2.g /\ c1.b = c2.b
    THEN 21000
    ELSE LET l1 == getRelativeLuminance(c1.r, c1.g, c1.b)
             l2 == getRelativeLuminance(c2.r, c2.g, c2.b)
         IN ((l1 + 50000) * 1000) \div (l2 + 50000)

\* A bug getContrastRatio could have: the 0.05 flare term left out of the
\* denominator's floor, so that dark colours exceed 21.
getContrastRatioNoFlare(c1, c2) ==
    IF c1.r = c2.r /\ c1.g = c2.g /\ c1.b = c2.b
    THEN 21000
    ELSE LET l1 == getRelativeLuminance(c1.r, c1.g, c1.b)
             l2 == getRelativeLuminance(c2.r, c2.g, c2.b)
             lighter == Max(l1, l2)
             darker == Min(l1, l2)
         IN ((lighter + 50000) * 1000) \div (darker + 40000)

\* getContrastRatio(rgb1, rgb2), in thousandths (floored).
getContrastRatio(c1, c2) ==
    IF c1.r = c2.r /\ c1.g = c2.g /\ c1.b = c2.b
    THEN 21000
    ELSE LET l1 == getRelativeLuminance(c1.r, c1.g, c1.b)
             l2 == getRelativeLuminance(c2.r, c2.g, c2.b)
             lighter == Max(l1, l2)
             darker == Min(l1, l2)
         IN ((lighter + 50000) * 1000) \div (darker + 50000)

(***************************************************************************)
(* Violation scoring                                                       *)
(***************************************************************************)

\* 0.5 * (1 + Math.cos(Math.PI * t)) in thousandths for t = i / 100,
\* entry i + 1; between two entries the curve is interpolated linearly.
CosineTable == <<
    1000, 1000, 999, 998, 996, 994, 991, 988, 984, 980,
    976, 970, 965, 959, 952, 946, 938, 930, 922, 914,
    905, 895, 885, 875, 864, 854, 842, 831, 819, 806,
    794, 781, 768, 755, 741, 727, 713, 699, 684, 669,
    655, 639, 624, 609, 594, 578, 563, 547, 531, 516,
    500, 484, 469, 453, 437, 422, 406, 391, 376, 361,
    345, 331, 316, 301, 287, 273, 259, 245, 232, 219,
    206, 194, 181, 169, 158, 146, 136, 125, 115, 105,
    95, 86, 78, 70, 62, 54, 48, 41, 35, 30,
    24, 20, 16, 12, 9, 6, 4, 2, 1, 0,
    0
>>

\* A bug uiContrastViolationScore could have: the cosine term subtracted,
\* 0.5 * (1 - Math.cos(Math.PI * t)), a curve that rises from 0 to 1.
uiContrastViolationScoreRising(ratio) ==
    IF ratio >= 3000 THEN 0
    ELSE IF ratio <= 1000 THEN 1000
    ELSE LET u == ratio - 1000
             i == u \div 20
             f == u % 20
         IN 1000 - (CosineTable[i + 1]
                    + ((CosineTable[i + 2] - CosineTable[i + 1]) * f) \div 20)

\* uiContrastViolationScore(ratio), ratio and score in thousandths.
\* t = (ratio - 1.0) / (3.0 - 1.0) is (ratio - 1000) / 2000.
uiContrastViolationScore(ratio) ==
    IF ratio >= 3000 THEN 0
    ELSE IF ratio <= 1000 THEN 1000
    ELSE LET u == ratio - 1000
             i == u \div 20
             f == u % 20
         IN CosineTable[i + 1]
            + ((CosineTable[i + 2] - CosineTable[i + 1]) * f) \div 20

(***************************************************************************)
(* Bitmaps (ImageData)                                                     *)
(*                                                                         *)
(* An ImageData is held as its width, its height and a description of its  *)
(* pixels, from which every byte of .data is computed: bands of `band`     *)
(* pixels, vertical ("vbands": columns) or horizontal ("hbands": rows),    *)
(* painted with the colours of `colors` in turn.  One colour gives a       *)
(* uniform bitmap; two colours and a band of half the side give two halves.*)
(***************************************************************************)
Bitmap(w, h, kind, colors, band) ==
    [width |-> w, height |-> h, kind |-> kind, colors |-> colors, band |-> band]

PixelColor(img, px, py) ==
    CASE img.kind = "vbands" -> img.colors[((px \div img.band) % Len(img.colors)) + 1]
      [] img.kind = "hbands" -> img.colors[((py \div img.band) % Len(img.colors)) + 1]

\* imageData.data[idx]: 4 bytes per pixel (R, G, B, A), row-major; a read
\* past the end of the buffer yields undefined in JavaScript.
Undefined == "undefined"
DataAt(img, idx) ==
    IF idx < 0 \/ idx >= img.width * img.height * 4
    THEN Undefined
    ELSE LET p == idx \div 4
             c == PixelColor(img, p % img.width, p \div img.width)
         IN CASE idx % 4 = 0 -> c.r
              [] idx % 4 = 1 -> c.g
              [] idx % 4 = 2 -> c.b
              [] idx % 4 = 3 -> 255

(***************************************************************************)
(* simpleKMeans                                                            *)
(***************************************************************************)

\* The square of the distance the code computes; Math.sqrt is strictly
\* increasing and the distance is only ever compared, so the comparisons of
\* the squares are those of the distances.
DistanceSq(color, centroid) ==
    (color.r - centroid.r) * (color.r - centroid.r)
    + (color.g - centroid.g) * (color.g - centroid.g)
    + (color.b - centroid.b) * (color.b - centroid.b)

\* minDistance = Infinity: above every squared distance (3 * 255^2 = 195075)
Infinity == 200000

\* centroids.forEach((centroid, i) => ...) from index i on (indices from 0);
\* the result is closestCluster.
\* A bug the assignment step could have: `distance <= minDistance`, which
\* sends a colour at the same distance from several centroids to the last.
RECURSIVE ClosestFromLastTie(_, _, _, _, _)
ClosestFromLastTie(color, centroids, i, minDistance, closestCluster) ==
    IF i >= Len(centroids)
    THEN closestCluster
    ELSE LET distance == DistanceSq(color, centroids[i + 1])
         IN IF distance <= minDistance
            THEN ClosestFromLastTie(color, centroids, i + 1, distance, i)
            ELSE ClosestFromLastTie(color, centroids, i + 1, minDistance,
                                    closestCluster)

RECURSIVE ClosestFrom(_, _, _, _, _)
ClosestFrom(color, centroids, i, minDistance, closestCluster) ==
    IF i >= Len(centroids)
    THEN closestCluster
    ELSE LET distance == DistanceSq(color, centroids[i + 1])
         IN IF distance < minDistance
            THEN ClosestFrom(color, centroids, i + 1, distance, i)
            ELSE ClosestFrom(color, centroids, i + 1, minDistance, closestCluster)

ClosestCluster(color, centroids) == ClosestFrom(color, centroids, 0, Infinity, 0)

\* clusters[i] after colors.forEach: the colours assigned to centroid i, in
\* the order of colors.
Cluster(colors, centroids, i) ==
    SelectSeq(colors, LAMBDA color : ClosestCluster(color, centroids) = i)

RECURSIVE SumChannel(_, _)
SumChannel(cluster, ch) ==
    IF cluster = <<>> THEN 0
    ELSE Head(cluster)[ch] + SumChannel(Tail(cluster), ch)

\* Math.round(sum / n) for sum >= 0, n > 0: halves round up.
RoundDiv(sum, n) == (2 * sum + n) \div (2 * n)

\* A bug simpleKMeans could have: no guard for an empty cluster, so that a
\* centroid without colours is recomputed from nothing instead of kept.
NewCentroidsResetEmpty(colors, k, centroids) ==
    [i \in 1..k |->
        LET cluster == Cluster(colors, centroids, i - 1)
        IN IF Len(cluster) = 0
           THEN RGB(0, 0, 0)
           ELSE RGB(RoundDiv(SumChannel(cluster, "r"), Len(cluster)),
                    RoundDiv(SumChannel(cluster, "g"), Len(cluster)),
                    RoundDiv(SumChannel(cluster, "b"), Len(cluster)))]

\* A bug simpleKMeans could have: the clusters without colours filtered out
\* before the means are taken, which leaves fewer than k centroids.
NewCentroidsDropEmpty(colors, k, centroids) ==
    LET kept == SelectSeq([i \in 1..k |-> i],
                          LAMBDA i : Len(Cluster(colors, centroids, i - 1)) > 0)
    IN [j \in 1..Len(kept) |->
           LET cluster == Cluster(colors, centroids, kept[j] - 1)
           IN RGB(RoundDiv(SumChannel(cluster, "r"), Len(cluster)),
                  RoundDiv(SumChannel(cluster, "g"), Len(cluster)),
                  RoundDiv(SumChannel(cluster, "b"), Len(cluster)))]

\* newCentroids = clusters.map(...)
NewCentroids(colors, k, centroids) ==
    [i \in 1..k |->
        LET cluster == Cluster(colors, centroids, i - 1)
        IN IF Len(cluster) = 0
           THEN centroids[i]
           ELSE RGB(RoundDiv(SumChannel(cluster, "r"), Len(cluster)),
                    RoundDiv(SumChannel(cluster, "g"), Len(cluster)),
                    RoundDiv(SumChannel(cluster, "b"), Len(cluster)))]

MaxIterations == 10

\* the for loop of simpleKMeans from iteration `iteration` on; the result
\* is the centroids returned.  JSON.stringify of two centroid arrays is
\* equal exactly when the arrays are (every centroid has the keys r, g, b
\* in that order).
RECURSIVE KMeansLoop(_, _, _, _)
KMeansLoop(colors, k, centroids, iteration) ==
    IF iteration >= MaxIterations
    THEN centroids
    ELSE LET newCentroids == NewCentroids(colors, k, centroids)
         IN IF newCentroids = centroids
            THEN centroids
            ELSE KMeansLoop(colors, k, newCentroids, iteration + 1)

simpleKMeans(colors, k) ==
    IF Len(colors) <= k
    THEN colors
    ELSE KMeansLoop(colors, k, SubSeq(colors, 1, k), 0)

(***************************************************************************)
(* extractDominantColors                                                   *)
(***************************************************************************)

\* A bug the sampler could have: the loops started at offset 1, so that a
\* region one pixel wide or high gives no sample.
SampleColorsFromOne(img, x, y, width, height) ==
    LET nx == IF width <= 1 THEN 0 ELSE width \div 2
        ny == IF height <= 1 THEN 0 ELSE height \div 2
        px(n) == x + 1 + 2 * ((n - 1) % nx)
        py(n) == y + 1 + 2 * ((n - 1) \div nx)
        inside == SelectSeq([n \in 1..(nx * ny) |-> n],
                            LAMBDA n : ~(px(n) >= img.width \/ py(n) >= img.height))
    IN [j \in 1..Len(inside) |->
           LET idx == (py(inside[j]) * img.width + px(inside[j])) * 4
           IN RGB(DataAt(img, idx), DataAt(img, idx + 1), DataAt(img, idx + 2))]

\* The colours pushed by the two sampling loops, in push order: dy and dx
\* run over the even offsets below height and width; a pixel outside the
\* bitmap is skipped.
SampleColors(img, x, y, width, height) ==
    LET nx == IF width <= 0 THEN 0 ELSE (width + 1) \div 2
        ny == IF height <= 0 THEN 0 ELSE (height + 1) \div 2
        px(n) == x + 2 * ((n - 1) % nx)
        py(n) == y + 2 * ((n - 1) \div nx)
        inside == SelectSeq([n \in 1..(nx * ny) |-> n],
                            LAMBDA n : ~(px(n) >= img.width \/ py(n) >= img.height))
    IN [j \in 1..Len(inside) |->
           LET idx == (py(inside[j]) * img.width + px(inside[j])) * 4
           IN RGB(DataAt(img, idx), DataAt(img, idx + 1), DataAt(img, idx + 2))]

\* The pixels (px, py) the two sampling loops compute, in loop order, the
\* skipped ones included.
SamplerPixels(x, y, width, height) ==
    LET nx == IF width <= 0 THEN 0 ELSE (width + 1) \div 2
        ny == IF height <= 0 THEN 0 ELSE (height + 1) \div 2
    IN [n \in 1..(nx * ny) |->
           [px |-> x + 2 * ((n - 1) % nx), py |-> y + 2 * ((n - 1) \div nx)]]

\* if (px >= imageWidth || py >= imageData.height) continue
SamplerSkips(img, p) == p.px >= img.width \/ p.py >= img.height

\* The indices of imageData.data the sampling loops read: data[idx],
\* data[idx + 1] and data[idx + 2] for every pixel not skipped.
SamplerReads(img, x, y, width, height) ==
    UNION {LET idx == (p.py * img.width + p.px) * 4
           IN {idx, idx + 1, idx + 2} :
              p \in {q \in {SamplerPixels(x, y, width, height)[n] :
                                 n \in DOMAIN SamplerPixels(x, y, width, height)} :
                         ~SamplerSkips(img, q)}}

extractDominantColors(img, x, y, width, height, maxColors) ==
    LET colors == SampleColors(img, x, y, width, height)
    IN IF Len(colors) = 0 THEN <<>> ELSE simpleKMeans(colors, maxColors)

(***************************************************************************)
(* Main analysis pipeline                                                  *)
(***************************************************************************)

\* WCAG AA baseline 3.0, in thousandths
WcagAA == 3000

\* A bug analyzeUIRegion could have: compliant decided against the 4.5:1
\* text baseline while gridAnalysis documents 3.0.
analyzeUIRegionTextBaseline(img, x, y, width, height) ==
    LET colors == extractDominantColors(img, x, y, width, height, 2)
    IN IF Len(colors) < 2
       THEN [score |-> 0, ratio |-> 21000, colors |-> colors, compliant |-> TRUE]
       ELSE LET ratio == getContrastRatio(colors[1], colors[2])
                score == uiContrastViolationScore(ratio)
            IN [score |-> score, ratio |-> ratio, colors |-> colors,
                compliant |-> ratio >= 4500]

analyzeUIRegion(img, x, y, width, height) ==
    LET colors == extractDominantColors(img, x, y, width, height, 2)
    IN IF Len(colors) < 2
       THEN [score |-> 0, ratio |-> 21000, colors |-> colors, compliant |-> TRUE]
       ELSE LET ratio == getContrastRatio(colors[1], colors[2])
                score == uiContrastViolationScore(ratio)
            IN [score |-> score, ratio |-> ratio, colors |-> colors,
                compliant |-> ratio >= WcagAA]

\* smallest block side that is analysed
MinBlock == 4

\* A bug gridAnalysis could have: the `if (w < 4 || h < 4) continue` test
\* missing, so that the narrow blocks at the right and bottom edges are
\* analysed as well.
gridAnalysisNoSkip(img, bs) ==
    LET nx == (img.width + bs - 1) \div bs
        ny == (img.height + bs - 1) \div bs
        bx(n) == bs * ((n - 1) % nx)
        by(n) == bs * ((n - 1) \div nx)
        w(n) == Min(bs, img.width - bx(n))
        h(n) == Min(bs, img.height - by(n))
        regionResult == [n \in 1..(nx * ny) |->
                            analyzeUIRegion(img, bx(n), by(n), w(n), h(n))]
        pushed == SelectSeq([n \in 1..(nx * ny) |-> n],
                            LAMBDA n : ~regionResult[n].compliant)
    IN [j \in 1..Len(pushed) |->
           [score |-> regionResult[pushed[j]].score,
            ratio |-> regionResult[pushed[j]].ratio,
            colors |-> regionResult[pushed[j]].colors,
            compliant |-> regionResult[pushed[j]].compliant,
            x |-> bx(pushed[j]), y |-> by(pushed[j])]]

\* A bug gridAnalysis could have: the loops nested the other way round, x
\* outer and y inner, which visits the blocks column by column.
gridAnalysisColumnMajor(img, bs) ==
    LET nx == (img.width + bs - 1) \div bs
        ny == (img.height + bs - 1) \div bs
        bx(n) == bs * ((n - 1) \div ny)
        by(n) == bs * ((n - 1) % ny)
        w(n) == Min(bs, img.width - bx(n))
        h(n) == Min(bs, img.height - by(n))
        skipped(n) == w(n) < MinBlock \/ h(n) < MinBlock
        regionResult == [n \in 1..(nx * ny) |->
                            IF skipped(n)
                            THEN [score |-> 0, ratio |-> 0, colors |-> <<>>,
                                  compliant |-> TRUE]
                            ELSE analyzeUIRegion(img, bx(n), by(n), w(n), h(n))]
        pushed == SelectSeq([n \in 1..(nx * ny) |-> n],
                            LAMBDA n : ~skipped(n) /\ ~regionResult[n].compliant)
    IN [j \in 1..Len(pushed) |->
           [score |-> regionResult[pushed[j]].score,
            ratio |-> regionResult[pushed[j]].ratio,
            colors |-> regionResult[pushed[j]].colors,
            compliant |-> regionResult[pushed[j]].compliant,
            x |-> bx(pushed[j]), y |-> by(pushed[j])]]

\* The two for loops of gridAnalysis, y outer and x inner, both from 0 in
\* steps of blockSize (bs > 0): the n-th block visited has origin
\* (bx(n), by(n)) and the clamped size w(n) x h(n).  A block with a side
\* below MinBlock is skipped (continue); of the others, the non-compliant
\* ones are pushed, in visiting order, with their origin added.
gridAnalysis(img, bs) ==
    LET nx == (img.width + bs - 1) \div bs
        ny == (img.height + bs - 1) \div bs
        bx(n) == bs * ((n - 1) % nx)
        by(n) == bs * ((n - 1) \div nx)
        w(n) == Min(bs, img.width - bx(n))
        h(n) == Min(bs, img.height - by(n))
        skipped(n) == w(n) < MinBlock \/ h(n) < MinBlock
        regionResult == [n \in 1..(nx * ny) |->
                            IF skipped(n)
                            THEN [score |-> 0, ratio |-> 0, colors |-> <<>>,
                                  compliant |-> TRUE]
                            ELSE analyzeUIRegion(img, bx(n), by(n), w(n), h(n))]
        pushed == SelectSeq([n \in 1..(nx * ny) |-> n],
                            LAMBDA n : ~skipped(n) /\ ~regionResult[n].compliant)
    IN [j \in 1..Len(pushed) |->
           [score |-> regionResult[pushed[j]].score,
            ratio |-> regionResult[pushed[j]].ratio,
            colors |-> regionResult[pushed[j]].colors,
            compliant |-> regionResult[pushed[j]].compliant,
            x |-> bx(pushed[j]), y |-> by(pushed[j])]]

(***************************************************************************)
(* The consumers' threshold filters                                        *)
(***************************************************************************)

\* A bug the popup's filter could have: the comparison inverted.
redrawFilterBelow(warnings, threshold) ==
    SelectSeq(warnings, LAMBDA warning : warning.ratio < threshold)

\* popup.js filterAndRedrawWarnings:
\*   allWarnings.filter(warning => warning.ratio >= currentThreshold)
redrawFilter(warnings, threshold) ==
    SelectSeq(warnings, LAMBDA warning : warning.ratio >= threshold)

\* popup.js analyzeScreenshot (img.onload):
\*   allWarnings.filter(warning => warning.ratio >= currentThreshold)
analyzeFilter(warnings, threshold) ==
    SelectSeq(warnings, LAMBDA warning : warning.ratio >= threshold)

\* AnalysisDisplay.tsx filteredResults (useMemo):
\*   if (!results) return [];
\*   return results.filter(result => result.ratio < contrastThreshold);
filteredResults(res, threshold) ==
    IF res = Null THEN <<>>
    ELSE SelectSeq(ValueOf(res), LAMBDA result : result.ratio < threshold)

(***************************************************************************)
(* Inputs of the pure-function specifications                              *)
(***************************************************************************)
Black == RGB(0, 0, 0)
White == RGB(255, 255, 255)
Grey100 == RGB(100, 100, 100)
Grey101 == RGB(101, 100, 100)
Grey128 == RGB(128, 128, 128)
Grey170 == RGB(170, 170, 170)

\* getContrastRatio is applied to every pair of colours with channels from
\* EvalChannels (both branches of sRGBToLinear, both ends of the range).
EvalChannels == {0, 10, 11, 128, 255}
EvalColors == {RGB(r, g, b) : r, g, b \in EvalChannels}

\* gridAnalysis is applied to every bitmap of up to MaxWidth x MaxHeight
\* pixels banded in either direction with a band of up to MaxBand pixels
\* and one of the colour sequences of Paints, and every blockSize from 1 to
\* MaxBlockSize.
MaxWidth == 8
MaxHeight == 8
MaxBand == 3
MaxBlockSize == 5
Paints == {<<Grey100>>, <<Grey128>>, <<White>>,
           <<Grey128, Grey100>>, <<Grey100, Grey101>>, <<Grey101, Grey100>>,
           <<Grey100, Black>>, <<Black, White>>,
           <<Grey100, Grey170, Grey128>>}
GridBitmaps ==
    {Bitmap(w, h, kind, colors, band) :
        w \in 1..MaxWidth, h \in 1..MaxHeight, kind \in {"vbands", "hbands"},
        colors \in Paints, band \in 1..MaxBand}

\* thresholds (thousandths) the consumers are asked to filter at
Thresholds == {1000, 1500, 2000, 3000, 4500}

(***************************************************************************)
(* Specification SpecEval: getContrastRatio on a pair of colours, both     *)
(* ways round, and gridAnalysis on the one-block bitmap whose left half is *)
(* the first colour and whose right half is the second                     *)
(***************************************************************************)
PairBitmap(c1, c2) == Bitmap(4, 4, "vbands", <<c1, c2>>, 2)

\* getContrastRatio(rgb1, rgb2) and getContrastRatio(rgb2, rgb1)
CallGetContrastRatio ==
    /\ evalPc = "ready"
    /\ ratioFwd' = getContrastRatio(rgb1, rgb2)
    /\ ratioRev' = getContrastRatio(rgb2, rgb1)
    /\ evalPc' = "done"
    /\ UNCHANGED <<rgb1, rgb2, pairResults>>

\* gridAnalysis(imageData, 4) on the bitmap of the pair
CallGridAnalysisOnPair ==
    /\ evalPc = "done"
    /\ pairResults' = gridAnalysis(PairBitmap(rgb1, rgb2), 4)
    /\ evalPc' = "analysed"
    /\ UNCHANGED <<rgb1, rgb2, ratioFwd, ratioRev>>

(***************************************************************************)
(* Specification SpecGrid: gridAnalysis on a bitmap, then the filters of   *)
(* the result consumers at a threshold                                     *)
(***************************************************************************)
NoImage == Bitmap(0, 0, "vbands", <<Black>>, 1)

\* results = gridAnalysis(imageData, blockSize)
CallGridAnalysis ==
    /\ gridPc = "ready"
    /\ results' = NonNull(gridAnalysis(imageData, blockSize))
    /\ gridPc' = "analysed"
    /\ contrastThreshold' = 0
    /\ shownRedraw' = <<>> /\ shownAnalyze' = <<>> /\ shownDisplay' = <<>>
    /\ UNCHANGED <<imageData, blockSize>>

\* Each consumer filters the result set at threshold t.  The popup's
\* filters run on an array only (allWarnings is never null); the display's
\* runs before the first analysis too, on results = null.
ApplyFilters(t) ==
    /\ gridPc \in {"ready", "filteredNull", "analysed", "filtered"}
    /\ contrastThreshold' = t
    /\ shownDisplay' = filteredResults(results, t)
    /\ IF results = Null
       THEN /\ gridPc' = "filteredNull"
            /\ UNCHANGED <<shownRedraw, shownAnalyze>>
       ELSE /\ gridPc' = "filtered"
            /\ shownRedraw' = redrawFilter(ValueOf(results), t)
            /\ shownAnalyze' = analyzeFilter(ValueOf(results), t)
    /\ UNCHANGED <<imageData, blockSize, results>>

(***************************************************************************)
(* Specification Spec: the popup (src/popup.js)                            *)
(*                                                                         *)
(* clickPc is where the analyze button's async click handler stands:       *)
(*   "idle"       not running                                              *)
(*   "capturing"  awaiting chrome.tabs.query / captureVisibleTab           *)
(*   "decoding"   awaiting analyzeScreenshot, i.e. the img's load event    *)
(*   "hung"       the img failed to load: no listener, never resolved      *)
(* dataUrl is the captured screenshot, held as the bitmap it decodes to.   *)
(***************************************************************************)

\* the screenshots captureVisibleTab can deliver
PopupBitmaps ==
    {Bitmap(16, 16, "vbands", <<White>>, 1),
     Bitmap(16, 16, "vbands", <<Grey128, Grey100>>, 8),
     Bitmap(32, 16, "vbands", <<Grey100, Grey170, Grey128>>, 8),
     Bitmap(32, 20, "hbands", <<Grey100, Grey101>>, 8),
     Bitmap(20, 32, "hbands", <<Grey100, Black, Grey128>>, 8)}

\* the values the threshold slider can be moved to (thousandths)
SliderValues == {1000, 1500, 2000, 2500, 3000}

\* gridAnalysis(imageData, 16) in analyzeScreenshot
PopupBlockSize == 16

\* currentScreenshot is null or an element, held as its tagName
NoScreenshot == "null"

\* resultsDiv.innerHTML
LoadingCapture == [view |-> "loading", text |-> "Capturing screenshot..."]
LoadingAnalyze == [view |-> "loading", text |-> "Analyzing contrast..."]
ErrorView == [view |-> "error"]

\* displayResults(warnings): what it writes to resultsDiv, given allWarnings
\* and currentThreshold
displayResults(warnings, all, threshold) ==
    IF Len(warnings) = 0
    THEN LET totalWarnings == Len(all)
         IN IF totalWarnings > 0
            THEN [view |-> "noneAboveThreshold", threshold |-> threshold,
                  total |-> totalWarnings,
                  hidden |-> totalWarnings - Len(warnings)]
            ELSE [view |-> "noWarnings"]
    ELSE LET totalWarnings == Len(all)
             filteredCount == Len(warnings)
             hiddenCount == totalWarnings - filteredCount
         IN [view |-> "summary", visible |-> filteredCount,
             hidden |-> hiddenCount, total |-> totalWarnings,
             threshold |-> threshold]

\* currentZoom is held in units of 1/216, in which every value that
\* multiplying and dividing by 1.5 between 1 and 4 can give is a whole
\* number: 1 is 216, 4 is 864.
ZoomOne == 216
ZoomMax == 4 * ZoomOne

\* A bug zoomIn could have: the product taken without Math.min(4, ...).
zoomInUncapped ==
    IF currentZoom < ZoomMax
    THEN currentZoom' = (currentZoom * 3) \div 2
    ELSE UNCHANGED currentZoom

\* zoomIn(): currentZoom = Math.min(4, currentZoom * 1.5) when below 4
zoomIn ==
    IF currentZoom < ZoomMax
    THEN currentZoom' = Min(ZoomMax, (currentZoom * 3) \div 2)
    ELSE UNCHANGED currentZoom

\* zoomOut(): currentZoom = Math.max(1, currentZoom / 1.5) when above 1
zoomOut ==
    IF currentZoom > ZoomOne
    THEN currentZoom' = Max(ZoomOne, (currentZoom * 2) \div 3)
    ELSE UNCHANGED currentZoom

\* resetZoom(): 100%, centred
resetZoom ==
    /\ currentZoom' = ZoomOne
    /\ imagePosition' = [x |-> 0, y |-> 0]

\* analyzeBtn click: reset the page for a new analysis (resetZoom included)
\* and start the capture.
ClickAnalyze ==
    /\ ~analyzeBtn.disabled
    /\ clickPc = "idle"
    /\ analyzeBtn' = [disabled |-> TRUE, textContent |-> "Capturing..."]
    /\ resultsDiv' = LoadingCapture
    /\ canvasWarnings' = <<>>
    /\ thresholdControls' = "none"
    /\ resetZoom
    /\ clickPc' = "capturing"
    /\ UNCHANGED <<currentScreenshot, currentThreshold, allWarnings,
                   filteredWarnings, originalImageData, dataUrl>>
    /\ screenshotContainer' = "empty"
    /\ UNCHANGED <<isDragging, dragStart>>

\* the capture resolves with a screenshot: displayScreenshot(dataUrl), then
\* analyzeScreenshot(dataUrl) up to img.src = dataUrl
CaptureResolved(bitmap) ==
    /\ clickPc = "capturing"
    /\ dataUrl' = bitmap
    /\ currentScreenshot' = "IMG"
    /\ resetZoom
    /\ analyzeBtn' = [disabled |-> TRUE, textContent |-> "Analyzing..."]
    /\ resultsDiv' = LoadingAnalyze
    /\ clickPc' = "decoding"
    /\ UNCHANGED <<currentThreshold, allWarnings, filteredWarnings,
                   thresholdControls, canvasWarnings, originalImageData>>
    /\ screenshotContainer' = "IMG"
    /\ UNCHANGED <<isDragging, dragStart>>

\* chrome.tabs.query or captureVisibleTab rejects: catch, then finally
CaptureRejected ==
    /\ clickPc = "capturing"
    /\ resultsDiv' = ErrorView
    /\ analyzeBtn' = [disabled |-> FALSE, textContent |-> "Analyze Current Page"]
    /\ clickPc' = "idle"
    /\ UNCHANGED <<currentZoom, currentScreenshot, imagePosition,
                   currentThreshold, allWarnings, filteredWarnings,
                   thresholdControls, canvasWarnings, originalImageData, dataUrl>>
    /\ UNCHANGED <<isDragging, dragStart, screenshotContainer>>

\* img.onload of analyzeScreenshot, and the rest of the click handler that
\* its resolve(filteredWarnings) resumes: displayResults(warnings), finally.
ImgOnload ==
    /\ clickPc = "decoding"
    /\ originalImageData' = dataUrl
    /\ allWarnings' = gridAnalysis(dataUrl, PopupBlockSize)
    /\ filteredWarnings' = analyzeFilter(allWarnings', currentThreshold)
    /\ canvasWarnings' = filteredWarnings'
    /\ currentScreenshot' = "CANVAS"
    /\ thresholdControls' = "block"
    /\ resultsDiv' = displayResults(filteredWarnings', allWarnings', currentThreshold)
    /\ analyzeBtn' = [disabled |-> FALSE, textContent |-> "Analyze Current Page"]
    /\ clickPc' = "idle"
    /\ UNCHANGED <<currentZoom, imagePosition, currentThreshold, dataUrl>>
    /\ screenshotContainer' = "CANVAS"
    /\ UNCHANGED <<isDragging, dragStart>>

\* the img fails to load: analyzeScreenshot sets no onerror, its promise
\* never settles and the click handler never resumes
ImgError ==
    /\ clickPc = "decoding"
    /\ clickPc' = "hung"
    /\ UNCHANGED <<currentZoom, currentScreenshot, imagePosition,
                   currentThreshold, allWarnings, filteredWarnings,
                   analyzeBtn, resultsDiv, thresholdControls, canvasWarnings,
                   originalImageData, dataUrl>>
    /\ UNCHANGED <<isDragging, dragStart, screenshotContainer>>

\* A bug filterAndRedrawWarnings could have: the filter applied in place,
\* overwriting the full result set.
filterAndRedrawWarningsInPlace ==
    /\ filteredWarnings' = redrawFilter(allWarnings, currentThreshold')
    /\ allWarnings' = filteredWarnings'
    /\ IF currentScreenshot # NoScreenshot
       THEN /\ canvasWarnings' = IF currentScreenshot = "CANVAS"
                                 THEN filteredWarnings' ELSE canvasWarnings
            /\ resultsDiv' = displayResults(filteredWarnings', allWarnings',
                                            currentThreshold')
       ELSE UNCHANGED <<canvasWarnings, resultsDiv>>

\* filterAndRedrawWarnings(), run by the slider's listener after it has set
\* currentThreshold: redrawWarningsOnScreenshot redraws on a canvas only.
filterAndRedrawWarnings ==
    /\ filteredWarnings' = redrawFilter(allWarnings, currentThreshold')
    /\ allWarnings' = allWarnings
    /\ IF currentScreenshot # NoScreenshot
       THEN /\ canvasWarnings' = IF currentScreenshot = "CANVAS"
                                 THEN filteredWarnings' ELSE canvasWarnings
            /\ resultsDiv' = displayResults(filteredWarnings', allWarnings,
                                            currentThreshold')
       ELSE UNCHANGED <<canvasWarnings, resultsDiv>>

\* A bug the slider's listener could have: the threshold stored and shown,
\* the warnings not filtered again.
SliderInputNoRefilter(v) ==
    /\ currentThreshold' = v
    /\ UNCHANGED <<allWarnings, filteredWarnings, canvasWarnings, resultsDiv>>
    /\ UNCHANGED <<currentZoom, currentScreenshot, imagePosition, analyzeBtn,
                   thresholdControls, originalImageData, clickPc, dataUrl>>
    /\ UNCHANGED <<isDragging, dragStart, screenshotContainer>>

\* thresholdSlider input with slider value v
SliderInput(v) ==
    /\ currentThreshold' = v
    /\ IF Len(allWarnings) > 0
       THEN filterAndRedrawWarnings
       ELSE UNCHANGED <<allWarnings, filteredWarnings, canvasWarnings, resultsDiv>>
    /\ UNCHANGED <<currentZoom, currentScreenshot, imagePosition, analyzeBtn,
                   thresholdControls, originalImageData, clickPc, dataUrl>>
    /\ UNCHANGED <<isDragging, dragStart, screenshotContainer>>

(***************************************************************************)
(* The specifications                                                      *)
(***************************************************************************)
Init ==
    /\ currentZoom = ZoomOne
    /\ currentScreenshot = NoScreenshot
    /\ imagePosition = [x |-> 0, y |-> 0]
    /\ currentThreshold = 1000
    /\ allWarnings = <<>>
    /\ filteredWarnings = <<>>
    /\ analyzeBtn = [disabled |-> FALSE, textContent |-> "Analyze Current Page"]
    /\ resultsDiv = [view |-> "empty"]
    /\ thresholdControls = "none"
    /\ canvasWarnings = <<>>
    /\ originalImageData = NoImage
    /\ clickPc = "idle"
    /\ dataUrl = NoImage
    /\ isDragging = FALSE /\ dragStart = [x |-> 0, y |-> 0]
    /\ screenshotContainer = "empty"
    /\ rgb1 = Black /\ rgb2 = Black
    /\ ratioFwd = 0 /\ ratioRev = 0 /\ pairResults = <<>>
    /\ evalPc = "idle"
    /\ imageData = NoImage /\ blockSize = 0 /\ results = Null
    /\ gridPc = "idle" /\ contrastThreshold = 0
    /\ shownRedraw = <<>> /\ shownAnalyze = <<>> /\ shownDisplay = <<>>
    /\ scoreRatio1 = 0 /\ scoreRatio2 = 0 /\ score1 = 0 /\ score2 = 0
    /\ scorePc = "idle"
    /\ kmInput = <<>> /\ kmColors = <<>> /\ kmK = 0 /\ kmCentroids = <<>>
    /\ kmIteration = 0 /\ kmBroke = FALSE /\ kmReturned = <<>> /\ kmPc = "idle"
    /\ regionImage = NoImage
    /\ regionRect = [x |-> 0, y |-> 0, width |-> 0, height |-> 0]
    /\ sampled = <<>>
    /\ regionOutcome = [score |-> 0, ratio |-> 0, colors |-> <<>>, compliant |-> TRUE]
    /\ regionPc = "idle"
    /\ pendingBlocks = {} /\ collected = <<>> /\ sortedResults = <<>>
    /\ workerPc = "idle"
    /\ domDocument = <<>> /\ domReturned = <<>> /\ domPc = "idle"
    /\ scanX = 0 /\ scanY = 0 /\ visited = <<>> /\ passedRegions = <<>>
    /\ scanResults = <<>> /\ scanPc = "idle"
    /\ imageUrl = Null /\ isLoading = FALSE /\ error = Null
    /\ queriesPending = 0 /\ capturesPending = 0 /\ analysesPending = <<>>

InitEval ==
    /\ rgb1 \in EvalColors
    /\ rgb2 \in EvalColors
    /\ ratioFwd = 0 /\ ratioRev = 0 /\ pairResults = <<>>
    /\ evalPc = "ready"
    /\ imageData = NoImage /\ blockSize = 0 /\ results = Null
    /\ gridPc = "idle" /\ contrastThreshold = 0
    /\ shownRedraw = <<>> /\ shownAnalyze = <<>> /\ shownDisplay = <<>>
    /\ currentZoom = ZoomOne
    /\ currentScreenshot = NoScreenshot
    /\ imagePosition = [x |-> 0, y |-> 0]
    /\ currentThreshold = 1000
    /\ allWarnings = <<>>
    /\ filteredWarnings = <<>>
    /\ analyzeBtn = [disabled |-> FALSE, textContent |-> "Analyze Current Page"]
    /\ resultsDiv = [view |-> "empty"]
    /\ thresholdControls = "none"
    /\ canvasWarnings = <<>>
    /\ originalImageData = NoImage
    /\ clickPc = "idle"
    /\ dataUrl = NoImage
    /\ isDragging = FALSE /\ dragStart = [x |-> 0, y |-> 0]
    /\ screenshotContainer = "empty"
    /\ scoreRatio1 = 0 /\ scoreRatio2 = 0 /\ score1 = 0 /\ score2 = 0
    /\ scorePc = "idle"
    /\ kmInput = <<>> /\ kmColors = <<>> /\ kmK = 0 /\ kmCentroids = <<>>
    /\ kmIteration = 0 /\ kmBroke = FALSE /\ kmReturned = <<>> /\ kmPc = "idle"
    /\ regionImage = NoImage
    /\ regionRect = [x |-> 0, y |-> 0, width |-> 0, height |-> 0]
    /\ sampled = <<>>
    /\ regionOutcome = [score |-> 0, ratio |-> 0, colors |-> <<>>, compliant |-> TRUE]
    /\ regionPc = "idle"
    /\ pendingBlocks = {} /\ collected = <<>> /\ sortedResults = <<>>
    /\ workerPc = "idle"
    /\ domDocument = <<>> /\ domReturned = <<>> /\ domPc = "idle"
    /\ scanX = 0 /\ scanY = 0 /\ visited = <<>> /\ passedRegions = <<>>
    /\ scanResults = <<>> /\ scanPc = "idle"
    /\ imageUrl = Null /\ isLoading = FALSE /\ error = Null
    /\ queriesPending = 0 /\ capturesPending = 0 /\ analysesPending = <<>>

InitGrid ==
    /\ imageData \in GridBitmaps
    /\ blockSize \in 1..MaxBlockSize
    /\ results = Null
    /\ gridPc = "ready" /\ contrastThreshold = 0
    /\ shownRedraw = <<>> /\ shownAnalyze = <<>> /\ shownDisplay = <<>>
    /\ rgb1 = Black /\ rgb2 = Black
    /\ ratioFwd = 0 /\ ratioRev = 0 /\ pairResults = <<>>
    /\ evalPc = "idle"
    /\ currentZoom = ZoomOne
    /\ currentScreenshot = NoScreenshot
    /\ imagePosition = [x |-> 0, y |-> 0]
    /\ currentThreshold = 1000
    /\ allWarnings = <<>>
    /\ filteredWarnings = <<>>
    /\ analyzeBtn = [disabled |-> FALSE, textContent |-> "Analyze Current Page"]
    /\ resultsDiv = [view |-> "empty"]
    /\ thresholdControls = "none"
    /\ canvasWarnings = <<>>
    /\ originalImageData = NoImage
    /\ clickPc = "idle"
    /\ dataUrl = NoImage
    /\ isDragging = FALSE /\ dragStart = [x |-> 0, y |-> 0]
    /\ screenshotContainer = "empty"
    /\ scoreRatio1 = 0 /\ scoreRatio2 = 0 /\ score1 = 0 /\ score2 = 0
    /\ scorePc = "idle"
    /\ kmInput = <<>> /\ kmColors = <<>> /\ kmK = 0 /\ kmCentroids = <<>>
    /\ kmIteration = 0 /\ kmBroke = FALSE /\ kmReturned = <<>> /\ kmPc = "idle"
    /\ regionImage = NoImage
    /\ regionRect = [x |-> 0, y |-> 0, width |-> 0, height |-> 0]
    /\ sampled = <<>>
    /\ regionOutcome = [score |-> 0, ratio |-> 0, colors |-> <<>>, compliant |-> TRUE]
    /\ regionPc = "idle"
    /\ pendingBlocks = {} /\ collected = <<>> /\ sortedResults = <<>>
    /\ workerPc = "idle"
    /\ domDocument = <<>> /\ domReturned = <<>> /\ domPc = "idle"
    /\ scanX = 0 /\ scanY = 0 /\ visited = <<>> /\ passedRegions = <<>>
    /\ scanResults = <<>> /\ scanPc = "idle"
    /\ imageUrl = Null /\ isLoading = FALSE /\ error = Null
    /\ queriesPending = 0 /\ capturesPending = 0 /\ analysesPending = <<>>

Next ==
    \/ ClickAnalyze /\ UNCHANGED <<evalVars, gridVars, unitVars>>
    \/ \E bitmap \in PopupBitmaps :
          CaptureResolved(bitmap) /\ UNCHANGED <<evalVars, gridVars, unitVars>>
    \/ CaptureRejected /\ UNCHANGED <<evalVars, gridVars, unitVars>>
    \/ ImgOnload /\ UNCHANGED <<evalVars, gridVars, unitVars>>
    \/ ImgError /\ UNCHANGED <<evalVars, gridVars, unitVars>>
    \/ \E v \in SliderValues : SliderInput(v) /\ UNCHANGED <<evalVars, gridVars, unitVars>>

EvalNext ==
    \/ CallGetContrastRatio /\ UNCHANGED <<gridVars, popupVars, unitVars>>
    \/ CallGridAnalysisOnPair /\ UNCHANGED <<gridVars, popupVars, unitVars>>

GridNext ==
    \/ CallGridAnalysis /\ UNCHANGED <<evalVars, popupVars, unitVars>>
    \/ \E t \in Thresholds : ApplyFilters(t) /\ UNCHANGED <<evalVars, popupVars, unitVars>>

Spec == Init /\ [][Next]_vars
SpecEval == InitEval /\ [][EvalNext]_vars
SpecGrid == InitGrid /\ [][GridNext]_vars

(***************************************************************************)
(* Properties                                                              *)
(***************************************************************************)

\* The block origins gridAnalysis analyses: the multiples of blockSize
\* inside the bitmap whose block, clamped to the bitmap, has both sides >= 4.
BlockW(img, bs, x) == Min(bs, img.width - x)
BlockH(img, bs, y) == Min(bs, img.height - y)
RetainedOrigins(img, bs) ==
    {o \in {<<i * bs, j * bs>> : i \in 0..(img.width \div bs),
                                 j \in 0..(img.height \div bs)} :
        /\ o[1] < img.width /\ o[2] < img.height
        /\ BlockW(img, bs, o[1]) >= 4 /\ BlockH(img, bs, o[2]) >= 4}

Emitted == ValueOf(results)

\* C1: every record gridAnalysis returns has compliant = false and
\* ratio < 3.0; no compliant block is emitted.
C1_NoCompliantEmitted ==
    results # Null =>
        \A i \in DOMAIN Emitted :
            /\ Emitted[i].compliant = FALSE
            /\ Emitted[i].ratio < 3000

\* C1 witness: an analysis that emitted a block and dropped another one it
\* analysed.
C1_Witness ==
    /\ gridPc = "analysed"
    /\ Len(Emitted) >= 1
    /\ Len(Emitted) < Cardinality(RetainedOrigins(imageData, blockSize))

\* every pixel of the bitmap has the colour of pixel (0, 0)
IsUniform(img) ==
    \A px \in 0..(img.width - 1), py \in 0..(img.height - 1) :
        PixelColor(img, px, py) = PixelColor(img, 0, 0)

\* C6: on a bitmap whose pixels all have the same colour gridAnalysis
\* returns the empty sequence, each analysed block evaluating to ratio 21,
\* compliant.
C6_UniformIsEmpty ==
    (results # Null /\ IsUniform(imageData)) =>
        /\ Emitted = <<>>
        /\ \A o \in RetainedOrigins(imageData, blockSize) :
              LET r == analyzeUIRegion(imageData, o[1], o[2],
                                       BlockW(imageData, blockSize, o[1]),
                                       BlockH(imageData, blockSize, o[2]))
              IN r.ratio = 21000 /\ r.compliant

\* C6 witness: a uniform bitmap with at least one analysed block.
C6_Witness ==
    /\ gridPc = "analysed"
    /\ IsUniform(imageData)
    /\ RetainedOrigins(imageData, blockSize) # {}
    /\ Emitted = <<>>

\* The block at (x, y) of sides w, h is made of two halves, a left of
\* colour A and a right of colour B, or a top of A and a bottom of B.
LeftRightHalves(img, x, y, w, h, A, B) ==
    /\ w % 2 = 0
    /\ \A dx \in 0..(w - 1), dy \in 0..(h - 1) :
          PixelColor(img, x + dx, y + dy) = IF 2 * dx < w THEN A ELSE B
TopBottomHalves(img, x, y, w, h, A, B) ==
    /\ h % 2 = 0
    /\ \A dx \in 0..(w - 1), dy \in 0..(h - 1) :
          PixelColor(img, x + dx, y + dy) = IF 2 * dy < h THEN A ELSE B

\* C7: a block of two halves of distinct colours A and B with contrast
\* ratio below 3 is emitted as a non-compliant record at the block's
\* origin whose two colours are A and B in some order.
C7_TwoHalvesEmitted ==
    results # Null =>
        \A o \in RetainedOrigins(imageData, blockSize) :
            LET w == BlockW(imageData, blockSize, o[1])
                h == BlockH(imageData, blockSize, o[2])
                A == PixelColor(imageData, o[1], o[2])
                B == PixelColor(imageData, o[1] + w - 1, o[2] + h - 1)
            IN (/\ A # B
                /\ getContrastRatio(A, B) < 3000
                /\ \/ LeftRightHalves(imageData, o[1], o[2], w, h, A, B)
                   \/ TopBottomHalves(imageData, o[1], o[2], w, h, A, B))
               => \E i \in DOMAIN Emitted :
                     /\ Emitted[i].x = o[1] /\ Emitted[i].y = o[2]
                     /\ Emitted[i].compliant = FALSE
                     /\ Emitted[i].colors \in {<<A, B>>, <<B, A>>}

\* C8: getContrastRatio of two componentwise equal colours is exactly 21.
C8_IdenticalIs21 ==
    (evalPc # "ready" /\ rgb1.r = rgb2.r /\ rgb1.g = rgb2.g /\ rgb1.b = rgb2.b)
        => (ratioFwd = 21000 /\ ratioRev = 21000)

\* C8 witness: the ratio of mid grey against itself has been computed.
C8_Witness ==
    /\ evalPc = "done"
    /\ rgb1 = Grey128 /\ rgb2 = Grey128
    /\ ratioFwd = 21000

\* C9: getContrastRatio(a, b) = getContrastRatio(b, a).
C9_Symmetric ==
    evalPc # "ready" => ratioFwd = ratioRev

\* C9 witness: two colours of different luminance, the darker one first,
\* compared both ways round.
C9_Witness ==
    /\ evalPc = "done"
    /\ rgb1 = Black /\ rgb2 = Grey128
    /\ ratioFwd = ratioRev /\ ratioFwd > 1000 /\ ratioFwd < 21000

\* C10: getContrastRatio lies in [1, 21] for channels in 0..255, and the
\* ratio of every record gridAnalysis emits is at least 1.0.
C10_RatioInRange ==
    /\ evalPc # "ready" =>
          /\ 1000 <= ratioFwd /\ ratioFwd <= 21000
          /\ 1000 <= ratioRev /\ ratioRev <= 21000
    /\ \A i \in DOMAIN pairResults :
          1000 <= pairResults[i].ratio /\ pairResults[i].ratio <= 21000

\* C10 witness: two distinct colours of ratio below 3 have been compared and
\* gridAnalysis has emitted the block painted with them, with that ratio.
C10_Witness ==
    /\ evalPc = "analysed"
    /\ rgb1 # rgb2
    /\ Len(pairResults) = 1
    /\ pairResults[1].ratio = ratioFwd
    /\ 1000 <= ratioFwd /\ ratioFwd < 3000

\* the records of seq with ratio >= t, and those with ratio < t, in the
\* order of seq
AtLeast(seq, t) == SelectSeq(seq, LAMBDA rec : rec.ratio >= t)
Below(seq, t) == SelectSeq(seq, LAMBDA rec : rec.ratio < t)

\* C2 as claimed: each of the three consumers' filters returns exactly the
\* records with ratio >= threshold, in their original order.
C2_AllConsumersKeepAtLeast ==
    gridPc = "filtered" =>
        /\ shownRedraw = AtLeast(Emitted, contrastThreshold)
        /\ shownAnalyze = AtLeast(Emitted, contrastThreshold)
        /\ shownDisplay = AtLeast(Emitted, contrastThreshold)

\* C2 as amended: the popup's two filters return exactly the records with
\* ratio >= threshold, in their original order; the display's
\* filteredResults returns exactly the records with ratio < threshold, in
\* their original order, and the empty sequence while results is null.
C2_PopupAtLeastDisplayBelow ==
    /\ gridPc = "filtered" =>
          /\ shownRedraw = AtLeast(Emitted, contrastThreshold)
          /\ shownAnalyze = AtLeast(Emitted, contrastThreshold)
          /\ shownDisplay = Below(Emitted, contrastThreshold)
    /\ gridPc = "filteredNull" => shownDisplay = <<>>

\* C2 witness: a result set of which the threshold keeps a part and hides
\* a part.
C2_Witness ==
    /\ gridPc = "filtered"
    /\ shownRedraw # <<>> /\ shownRedraw # Emitted
    /\ shownDisplay # <<>> /\ shownDisplay # Emitted

\* C4 as claimed: on a result set of gridAnalysis the threshold filter
\* (the popup's and the display's) returns everything at threshold 1.0 and
\* nothing at threshold 3.0.
C4_AllAtOneNoneAtThree ==
    gridPc = "filtered" =>
        /\ contrastThreshold = 1000 =>
              (shownRedraw = Emitted /\ shownDisplay = Emitted)
        /\ contrastThreshold = 3000 =>
              (shownRedraw = <<>> /\ shownDisplay = <<>>)

\* C4 as amended: on a result set of gridAnalysis the popup's filter
\* returns everything at threshold 1.0 and nothing at 3.0; the display's
\* filteredResults returns nothing at 1.0 and everything at 3.0.
C4_PopupAllAtOneDisplayAllAtThree ==
    gridPc = "filtered" =>
        /\ contrastThreshold = 1000 =>
              (shownRedraw = Emitted /\ shownDisplay = <<>>)
        /\ contrastThreshold = 3000 =>
              (shownRedraw = <<>> /\ shownDisplay = Emitted)

\* C4 witness: a non-empty result set filtered at 3.0.
C4_Witness ==
    /\ gridPc = "filtered"
    /\ contrastThreshold = 3000
    /\ Len(Emitted) >= 2
    /\ shownRedraw = <<>> /\ shownDisplay = Emitted

\* every record of sequence a occurs in sequence b
AllIn(a, b) == \A i \in DOMAIN a : \E j \in DOMAIN b : a[i] = b[j]

\* a step of the slider's input listener
SliderStep == \E v \in SliderValues : SliderInput(v)

\* C3 as claimed: raising the threshold never hides a record: on a slider
\* step from t1 to t2 >= t1 every record shown before is shown after.
C3_RaisingShowsMore ==
    [][(SliderStep /\ currentThreshold <= currentThreshold')
          => AllIn(filteredWarnings, filteredWarnings')]_vars

\* C3 as amended: raising the threshold never reveals a record: on a
\* slider step from t1 to t2 >= t1 every record shown after was shown
\* before (and lowering it never hides one).
C3_RaisingShowsFewer ==
    [][(SliderStep /\ currentThreshold <= currentThreshold')
          => AllIn(filteredWarnings', filteredWarnings)]_vars

\* C3 witness: the threshold has been raised above its initial 1.0 and
\* hides a part of the result set.
C3_Witness ==
    /\ currentThreshold > 1000
    /\ Len(filteredWarnings) >= 1
    /\ Len(filteredWarnings) < Len(allWarnings)

\* the number of blocks of img with ratio < 3.0
FailingBlocks(img, bs) ==
    {o \in RetainedOrigins(img, bs) :
        analyzeUIRegion(img, o[1], o[2], BlockW(img, bs, o[1]),
                        BlockH(img, bs, o[2])).ratio < 3000}

\* C5: a slider input leaves allWarnings as it is, and the total the
\* results panel reports is the number of blocks with ratio < 3.0 of the
\* last analysed screenshot whatever the threshold.
C5_ThresholdKeepsAllWarnings ==
    /\ [][SliderStep => allWarnings' = allWarnings]_vars
    /\ [](/\ Len(allWarnings) =
               Cardinality(FailingBlocks(originalImageData, PopupBlockSize))
          /\ resultsDiv.view \in {"summary", "noneAboveThreshold"}
                => resultsDiv.total = Len(allWarnings))

\* C5 witness: the slider has hidden every record of a non-empty result
\* set and the panel still reports the total.
C5_Witness ==
    /\ Len(allWarnings) >= 2
    /\ filteredWarnings = <<>>
    /\ resultsDiv.view = "noneAboveThreshold"
    /\ resultsDiv.total = Len(allWarnings)

(***************************************************************************)
(* Specification SpecScore: uiContrastViolationScore on a pair of ratios   *)
(***************************************************************************)
\* number of steps of the ratio grid
ScoreRatioSteps == 240

\* ratios (thousandths) from 0.5 up in steps of 0.013, which meet every
\* position between two entries of CosineTable, and the two ends of the curve
ScoreRatios == {500 + 13 * i : i \in 0..ScoreRatioSteps} \cup {1000, 3000}

\* uiContrastViolationScore(scoreRatio1), uiContrastViolationScore(scoreRatio2)
CallScore ==
    /\ scorePc = "ready"
    /\ score1' = uiContrastViolationScore(scoreRatio1)
    /\ score2' = uiContrastViolationScore(scoreRatio2)
    /\ scorePc' = "done"
    /\ UNCHANGED <<scoreRatio1, scoreRatio2>>

InitScore ==
    /\ scoreRatio1 \in ScoreRatios
    /\ scoreRatio2 \in ScoreRatios
    /\ score1 = 0 /\ score2 = 0
    /\ scorePc = "ready"
    /\ rgb1 = Black /\ rgb2 = Black
    /\ ratioFwd = 0 /\ ratioRev = 0 /\ pairResults = <<>>
    /\ evalPc = "idle"
    /\ imageData = NoImage /\ blockSize = 0 /\ results = Null
    /\ gridPc = "idle" /\ contrastThreshold = 0
    /\ shownRedraw = <<>> /\ shownAnalyze = <<>> /\ shownDisplay = <<>>
    /\ currentZoom = ZoomOne
    /\ currentScreenshot = NoScreenshot
    /\ imagePosition = [x |-> 0, y |-> 0]
    /\ currentThreshold = 1000
    /\ allWarnings = <<>>
    /\ filteredWarnings = <<>>
    /\ analyzeBtn = [disabled |-> FALSE, textContent |-> "Analyze Current Page"]
    /\ resultsDiv = [view |-> "empty"]
    /\ thresholdControls = "none"
    /\ canvasWarnings = <<>>
    /\ originalImageData = NoImage
    /\ clickPc = "idle"
    /\ dataUrl = NoImage
    /\ isDragging = FALSE /\ dragStart = [x |-> 0, y |-> 0]
    /\ screenshotContainer = "empty"
    /\ kmInput = <<>> /\ kmColors = <<>> /\ kmK = 0 /\ kmCentroids = <<>>
    /\ kmIteration = 0 /\ kmBroke = FALSE /\ kmReturned = <<>> /\ kmPc = "idle"
    /\ regionImage = NoImage
    /\ regionRect = [x |-> 0, y |-> 0, width |-> 0, height |-> 0]
    /\ sampled = <<>>
    /\ regionOutcome = [score |-> 0, ratio |-> 0, colors |-> <<>>, compliant |-> TRUE]
    /\ regionPc = "idle"
    /\ pendingBlocks = {} /\ collected = <<>> /\ sortedResults = <<>>
    /\ workerPc = "idle"
    /\ domDocument = <<>> /\ domReturned = <<>> /\ domPc = "idle"
    /\ scanX = 0 /\ scanY = 0 /\ visited = <<>> /\ passedRegions = <<>>
    /\ scanResults = <<>> /\ scanPc = "idle"
    /\ imageUrl = Null /\ isLoading = FALSE /\ error = Null
    /\ queriesPending = 0 /\ capturesPending = 0 /\ analysesPending = <<>>

ScoreNext ==
    CallScore /\ UNCHANGED <<evalVars, gridVars, popupVars, kmVars, regionVars,
                            workerVars, domVars, moreVars>>

SpecScore == InitScore /\ [][ScoreNext]_vars

\* C11: the score is 0 at ratio 3.0 and at every ratio >= 3.0, 1.0 at ratio
\* 1.0 and at every ratio <= 1.0, lies in [0, 1] for every ratio, and never
\* increases when the ratio increases.
C11_ScoreContract ==
    scorePc = "done" =>
        /\ score1 >= 0 /\ score1 <= 1000
        /\ (scoreRatio1 = 3000 => score1 = 0)
        /\ (scoreRatio1 = 1000 => score1 = 1000)
        /\ (scoreRatio1 >= 3000 => score1 = 0)
        /\ (scoreRatio1 <= 1000 => score1 = 1000)
        /\ (scoreRatio1 <= scoreRatio2 => score1 >= score2)

\* two ratios strictly inside (1, 3) whose scores differ and are strictly
\* inside (0, 1)
C11_Witness ==
    /\ scorePc = "done"
    /\ 1000 < scoreRatio1 /\ scoreRatio1 < scoreRatio2 /\ scoreRatio2 < 3000
    /\ 1000 > score1 /\ score1 > score2 /\ score2 > 0

(***************************************************************************)
(* Specification SpecKMeans: simpleKMeans(colors, k), one pass of its loop *)
(* per step.  kmInput is the sequence as it was passed, kmColors the array *)
(* the function holds, kmIteration the loop variable `iteration`.          *)
(***************************************************************************)
\* longest enumerated colour sequence, and largest k
MaxColors == 4
MaxK == 3

Grey(v) == RGB(v, v, v)

KMeansPalette == {Black, Grey100, Grey101, Grey128}

ShortInputs == UNION {[1..n -> KMeansPalette] : n \in 0..MaxColors}

\* Two sequences on which the centroids move slowly: with k = 2 the first
\* settles in the 11th pass, the second would need a 12th.
SlowInputs ==
    {[i \in 1..11 |-> Grey(<<234, 158, 179, 126, 146, 192, 154, 140, 116, 2,
                             165>>[i])],
     [i \in 1..12 |-> Grey(<<255, 191, 179, 164, 155, 138, 5, 212, 146, 172,
                             169, 122>>[i])]}

KMeansInputs == ShortInputs \cup SlowInputs

\* A bug simpleKMeans could have: too few colours treated as no colours.
KMeansEnterEmpty ==
    /\ kmPc = "ready"
    /\ IF Len(kmColors) <= kmK
       THEN /\ kmReturned' = <<>>
            /\ kmPc' = "returned"
            /\ UNCHANGED kmCentroids
       ELSE /\ kmCentroids' = SubSeq(kmColors, 1, kmK)
            /\ kmPc' = "loop"
            /\ UNCHANGED kmReturned
    /\ kmIteration' = 0
    /\ UNCHANGED <<kmInput, kmColors, kmK, kmBroke>>

\* if (colors.length <= k) return colors;
\* let centroids = colors.slice(0, k).map(c => ({...c}));  iteration = 0
KMeansEnter ==
    /\ kmPc = "ready"
    /\ IF Len(kmColors) <= kmK
       THEN /\ kmReturned' = kmColors
            /\ kmPc' = "returned"
            /\ UNCHANGED kmCentroids
       ELSE /\ kmCentroids' = SubSeq(kmColors, 1, kmK)
            /\ kmPc' = "loop"
            /\ UNCHANGED kmReturned
    /\ kmIteration' = 0
    /\ UNCHANGED <<kmInput, kmColors, kmK, kmBroke>>

\* A bug simpleKMeans could have: the centroids, taken from the array
\* without copying, updated in place, which writes into the caller's colours.
KMeansIterateInPlace ==
    /\ kmPc = "loop"
    /\ kmIteration < MaxIterations
    /\ LET newCentroids == NewCentroids(kmColors, kmK, kmCentroids)
       IN IF newCentroids = kmCentroids
          THEN /\ kmBroke' = TRUE
               /\ kmReturned' = kmCentroids
               /\ kmPc' = "returned"
               /\ UNCHANGED <<kmCentroids, kmIteration, kmColors>>
          ELSE /\ kmCentroids' = newCentroids
               /\ kmColors' = [i \in 1..Len(kmColors) |->
                                  IF i <= kmK THEN newCentroids[i] ELSE kmColors[i]]
               /\ kmIteration' = kmIteration + 1
               /\ UNCHANGED <<kmBroke, kmReturned, kmPc>>
    /\ UNCHANGED <<kmInput, kmK>>

\* A bug simpleKMeans could have: no early exit, every run makes all passes.
KMeansIterateNoBreak ==
    /\ kmPc = "loop"
    /\ kmIteration < MaxIterations
    /\ kmCentroids' = NewCentroids(kmColors, kmK, kmCentroids)
    /\ kmIteration' = kmIteration + 1
    /\ UNCHANGED <<kmBroke, kmReturned, kmPc, kmInput, kmColors, kmK>>

\* One pass of the for loop: assign every colour to its closest centroid,
\* recompute the centroids, break (and return) if they did not change.
KMeansIterate ==
    /\ kmPc = "loop"
    /\ kmIteration < MaxIterations
    /\ LET newCentroids == NewCentroids(kmColors, kmK, kmCentroids)
       IN IF newCentroids = kmCentroids
          THEN /\ kmBroke' = TRUE
               /\ kmReturned' = kmCentroids
               /\ kmPc' = "returned"
               /\ UNCHANGED <<kmCentroids, kmIteration>>
          ELSE /\ kmCentroids' = newCentroids
               /\ kmIteration' = kmIteration + 1
               /\ UNCHANGED <<kmBroke, kmReturned, kmPc>>
    /\ UNCHANGED <<kmInput, kmColors, kmK>>

\* The loop condition iteration < 10 fails: return centroids.
KMeansLoopExit ==
    /\ kmPc = "loop"
    /\ ~(kmIteration < MaxIterations)
    /\ kmReturned' = kmCentroids
    /\ kmPc' = "returned"
    /\ UNCHANGED <<kmInput, kmColors, kmK, kmCentroids, kmIteration, kmBroke>>

InitKMeans ==
    /\ kmInput \in KMeansInputs
    /\ kmColors = kmInput
    /\ kmK \in 1..MaxK
    /\ kmCentroids = <<>> /\ kmIteration = 0 /\ kmBroke = FALSE
    /\ kmReturned = <<>>
    /\ kmPc = "ready"
    /\ rgb1 = Black /\ rgb2 = Black
    /\ ratioFwd = 0 /\ ratioRev = 0 /\ pairResults = <<>>
    /\ evalPc = "idle"
    /\ imageData = NoImage /\ blockSize = 0 /\ results = Null
    /\ gridPc = "idle" /\ contrastThreshold = 0
    /\ shownRedraw = <<>> /\ shownAnalyze = <<>> /\ shownDisplay = <<>>
    /\ currentZoom = ZoomOne
    /\ currentScreenshot = NoScreenshot
    /\ imagePosition = [x |-> 0, y |-> 0]
    /\ currentThreshold = 1000
    /\ allWarnings = <<>>
    /\ filteredWarnings = <<>>
    /\ analyzeBtn = [disabled |-> FALSE, textContent |-> "Analyze Current Page"]
    /\ resultsDiv = [view |-> "empty"]
    /\ thresholdControls = "none"
    /\ canvasWarnings = <<>>
    /\ originalImageData = NoImage
    /\ clickPc = "idle"
    /\ dataUrl = NoImage
    /\ isDragging = FALSE /\ dragStart = [x |-> 0, y |-> 0]
    /\ screenshotContainer = "empty"
    /\ scoreRatio1 = 0 /\ scoreRatio2 = 0 /\ score1 = 0 /\ score2 = 0
    /\ scorePc = "idle"
    /\ regionImage = NoImage
    /\ regionRect = [x |-> 0, y |-> 0, width |-> 0, height |-> 0]
    /\ sampled = <<>>
    /\ regionOutcome = [score |-> 0, ratio |-> 0, colors |-> <<>>, compliant |-> TRUE]
    /\ regionPc = "idle"
    /\ pendingBlocks = {} /\ collected = <<>> /\ sortedResults = <<>>
    /\ workerPc = "idle"
    /\ domDocument = <<>> /\ domReturned = <<>> /\ domPc = "idle"
    /\ scanX = 0 /\ scanY = 0 /\ visited = <<>> /\ passedRegions = <<>>
    /\ scanResults = <<>> /\ scanPc = "idle"
    /\ imageUrl = Null /\ isLoading = FALSE /\ error = Null
    /\ queriesPending = 0 /\ capturesPending = 0 /\ analysesPending = <<>>

KMeansNext ==
    \/ KMeansEnter /\ UNCHANGED <<evalVars, gridVars, popupVars, scoreVars,
                                  regionVars, workerVars, domVars, moreVars>>
    \/ KMeansIterate /\ UNCHANGED <<evalVars, gridVars, popupVars, scoreVars,
                                    regionVars, workerVars, domVars, moreVars>>
    \/ KMeansLoopExit /\ UNCHANGED <<evalVars, gridVars, popupVars, scoreVars,
                                     regionVars, workerVars, domVars, moreVars>>

SpecKMeans == InitKMeans /\ [][KMeansNext]_vars

\* The function runs to completion once called: its steps are not starved.
SpecKMeansLive == SpecKMeans /\ WF_vars(KMeansNext)

\* C12: whenever colors.length <= k (the empty sequence included) the call
\* returns exactly the sequence it was given, same content, same order.
C12_FewColorsReturnedUnchanged ==
    (kmPc = "returned" /\ Len(kmInput) <= kmK) =>
        /\ kmReturned = kmInput
        /\ kmColors = kmInput

\* a call with exactly k colours, not all equal, has returned
C12_Witness ==
    /\ kmPc = "returned"
    /\ Len(kmInput) = kmK /\ kmK = 2
    /\ kmInput[1] # kmInput[2]
    /\ kmReturned = kmInput

Passes == kmIteration + (IF kmBroke THEN 1 ELSE 0)

\* the loop is about to make a pass
PassStep == kmPc = "loop" /\ kmIteration < MaxIterations

\* C19: a run on more than k colours makes at most 10 passes and returns;
\* a pass breaks out exactly when the recomputed centroids equal the
\* previous ones, and the centroids returned after a break are a fixed point
\* of the assign/recompute step.
C19_AtMostTenPassesEarlyStopAtFixedPoint ==
    /\ [](Passes <= MaxIterations)
    /\ [][PassStep =>
            (kmBroke' <=> NewCentroids(kmColors, kmK, kmCentroids) = kmCentroids)]_vars
    /\ []((kmPc = "returned" /\ kmBroke) =>
            NewCentroids(kmInput, kmK, kmReturned) = kmReturned)
    /\ <>(kmPc = "returned")

\* a run that made all 10 passes without breaking out has returned
C19_Witness ==
    /\ kmPc = "returned"
    /\ Len(kmInput) > kmK
    /\ kmIteration = MaxIterations
    /\ ~kmBroke

\* C20: in every pass a centroid to which no colour was assigned keeps its
\* previous value, and there are k centroids throughout the loop and in the
\* returned sequence.
C20_EmptyClusterKeepsCentroid ==
    /\ [][PassStep =>
            \A i \in 1..kmK :
                Cluster(kmColors, kmCentroids, i - 1) = <<>> =>
                    kmCentroids'[i] = kmCentroids[i]]_vars
    /\ [](kmPc = "loop" => Len(kmCentroids) = kmK)
    /\ []((kmPc = "returned" /\ Len(kmInput) > kmK) => Len(kmReturned) = kmK)

\* after the first pass the second centroid, equal to the first at the start
\* and so left without colours, is where it was while the first has moved
C20_Witness ==
    /\ kmPc = "loop"
    /\ kmIteration = 1
    /\ kmK = 2
    /\ kmInput[1] = kmInput[2]
    /\ kmCentroids[2] = kmInput[2]
    /\ kmCentroids[2] # Black
    /\ kmCentroids[1] # kmInput[1]

(***************************************************************************)
(* Specification SpecRegion: the sampling loops of extractDominantColors   *)
(* and analyzeUIRegion on a region (x, y, width, height) of a bitmap       *)
(***************************************************************************)
\* largest bitmap side, largest region origin, largest region side
MaxRegionImage == 4
MaxRegionOrigin == 3
MaxRegionSide == 5

RegionPaints == {<<Grey100>>, <<Grey128, Grey100>>}

RegionBitmaps ==
    {Bitmap(w, h, "vbands", colors, 1) :
        w \in 1..MaxRegionImage, h \in 1..MaxRegionImage, colors \in RegionPaints}

RegionRects ==
    [x : 0..MaxRegionOrigin, y : 0..MaxRegionOrigin,
     width : 0..MaxRegionSide, height : 0..MaxRegionSide]

\* the two for loops of extractDominantColors, up to `colors.length === 0`
CallSampler ==
    /\ regionPc = "ready"
    /\ sampled' = SampleColors(regionImage, regionRect.x, regionRect.y,
                               regionRect.width, regionRect.height)
    /\ regionPc' = "sampled"
    /\ UNCHANGED <<regionImage, regionRect, regionOutcome>>

\* analyzeUIRegion(imageData, x, y, width, height)
CallAnalyzeUIRegion ==
    /\ regionPc = "sampled"
    /\ regionOutcome' = analyzeUIRegion(regionImage, regionRect.x, regionRect.y,
                                        regionRect.width, regionRect.height)
    /\ regionPc' = "analysed"
    /\ UNCHANGED <<regionImage, regionRect, sampled>>

InitRegion ==
    /\ regionImage \in RegionBitmaps
    /\ regionRect \in RegionRects
    /\ sampled = <<>>
    /\ regionOutcome = [score |-> 0, ratio |-> 0, colors |-> <<>>, compliant |-> TRUE]
    /\ regionPc = "ready"
    /\ rgb1 = Black /\ rgb2 = Black
    /\ ratioFwd = 0 /\ ratioRev = 0 /\ pairResults = <<>>
    /\ evalPc = "idle"
    /\ imageData = NoImage /\ blockSize = 0 /\ results = Null
    /\ gridPc = "idle" /\ contrastThreshold = 0
    /\ shownRedraw = <<>> /\ shownAnalyze = <<>> /\ shownDisplay = <<>>
    /\ currentZoom = ZoomOne
    /\ currentScreenshot = NoScreenshot
    /\ imagePosition = [x |-> 0, y |-> 0]
    /\ currentThreshold = 1000
    /\ allWarnings = <<>>
    /\ filteredWarnings = <<>>
    /\ analyzeBtn = [disabled |-> FALSE, textContent |-> "Analyze Current Page"]
    /\ resultsDiv = [view |-> "empty"]
    /\ thresholdControls = "none"
    /\ canvasWarnings = <<>>
    /\ originalImageData = NoImage
    /\ clickPc = "idle"
    /\ dataUrl = NoImage
    /\ isDragging = FALSE /\ dragStart = [x |-> 0, y |-> 0]
    /\ screenshotContainer = "empty"
    /\ scoreRatio1 = 0 /\ scoreRatio2 = 0 /\ score1 = 0 /\ score2 = 0
    /\ scorePc = "idle"
    /\ kmInput = <<>> /\ kmColors = <<>> /\ kmK = 0 /\ kmCentroids = <<>>
    /\ kmIteration = 0 /\ kmBroke = FALSE /\ kmReturned = <<>> /\ kmPc = "idle"
    /\ pendingBlocks = {} /\ collected = <<>> /\ sortedResults = <<>>
    /\ workerPc = "idle"
    /\ domDocument = <<>> /\ domReturned = <<>> /\ domPc = "idle"
    /\ scanX = 0 /\ scanY = 0 /\ visited = <<>> /\ passedRegions = <<>>
    /\ scanResults = <<>> /\ scanPc = "idle"
    /\ imageUrl = Null /\ isLoading = FALSE /\ error = Null
    /\ queriesPending = 0 /\ capturesPending = 0 /\ analysesPending = <<>>

RegionNext ==
    \/ CallSampler /\ UNCHANGED <<evalVars, gridVars, popupVars, scoreVars,
                                  kmVars, workerVars, domVars, moreVars>>
    \/ CallAnalyzeUIRegion /\ UNCHANGED <<evalVars, gridVars, popupVars, scoreVars,
                                          kmVars, workerVars, domVars, moreVars>>

SpecRegion == InitRegion /\ [][RegionNext]_vars

\* the region lies within the bitmap, as the caller is to ensure
InBounds ==
    /\ regionRect.x + regionRect.width <= regionImage.width
    /\ regionRect.y + regionRect.height <= regionImage.height

\* C14 as stated: the sampler gives the empty sequence for a region whose
\* width or height is below 2, and a non-empty sequence otherwise (regions
\* within the bitmap).
C14_EmptyBelowTwo ==
    (regionPc # "ready" /\ InBounds) =>
        (sampled = <<>> <=> (regionRect.width < 2 \/ regionRect.height < 2))

\* C14: the sampler gives the empty sequence exactly for a region without
\* area (width or height below 1) or with its origin outside the bitmap; a
\* region one pixel wide or high inside the bitmap gives its pixels at the
\* even offsets.
C14_EmptyIffNoAreaOrOutside ==
    regionPc # "ready" =>
        /\ sampled = <<>> <=>
              \/ regionRect.width < 1 \/ regionRect.height < 1
              \/ regionRect.x >= regionImage.width
              \/ regionRect.y >= regionImage.height
        /\ InBounds =>
              Len(sampled) = ((regionRect.width + 1) \div 2)
                             * ((regionRect.height + 1) \div 2)

\* a region of one pixel inside the bitmap has been sampled: one colour
C14_Witness ==
    /\ regionPc = "sampled"
    /\ InBounds
    /\ regionRect.width = 1 /\ regionRect.height = 1
    /\ Len(sampled) = 1

\* C15 as stated: for a block of one uniform colour the sampler and the
\* clusterer yield fewer than 2 colours, and the outcome is score 0, ratio
\* 21, compliant.
C15_UniformYieldsFewerThanTwo ==
    (regionPc = "analysed" /\ IsUniform(regionImage) /\ InBounds
        /\ regionRect.width >= 1 /\ regionRect.height >= 1) =>
        /\ Len(regionOutcome.colors) < 2
        /\ regionOutcome.score = 0
        /\ regionOutcome.ratio = 21000
        /\ regionOutcome.compliant

\* C15: for a block of one uniform colour the outcome is score 0, ratio 21,
\* compliant; the clusterer yields one colour only when a single pixel was
\* sampled, and two equal colours otherwise, for which the ratio 21 comes
\* from getContrastRatio on identical colours.
C15_UniformIsCompliantWithTwoEqualColors ==
    (regionPc = "analysed" /\ IsUniform(regionImage) /\ InBounds
        /\ regionRect.width >= 1 /\ regionRect.height >= 1) =>
        /\ Len(regionOutcome.colors) = Min(Len(sampled), 2)
        /\ \A i \in DOMAIN regionOutcome.colors :
              regionOutcome.colors[i] = regionImage.colors[1]
        /\ regionOutcome.score = 0
        /\ regionOutcome.ratio = 21000
        /\ regionOutcome.compliant

\* a uniform 4x4 block has been analysed: two colours, ratio 21
C15_Witness ==
    /\ regionPc = "analysed"
    /\ IsUniform(regionImage)
    /\ regionRect = [x |-> 0, y |-> 0, width |-> 4, height |-> 4]
    /\ InBounds
    /\ Len(sampled) = 4
    /\ Len(regionOutcome.colors) = 2
    /\ regionOutcome.ratio = 21000

\* C16: every record gridAnalysis emits belongs to a block whose clamped
\* width min(blockSize, width - x) and clamped height min(blockSize,
\* height - y) are both at least 4; with blockSize below 4, or a bitmap
\* narrower or shorter than 4 pixels, nothing is emitted.
C16_NarrowBlocksSkipped ==
    results # Null =>
        /\ \A i \in DOMAIN Emitted :
              /\ BlockW(imageData, blockSize, Emitted[i].x) >= MinBlock
              /\ BlockH(imageData, blockSize, Emitted[i].y) >= MinBlock
        /\ (blockSize < MinBlock \/ imageData.width < MinBlock
               \/ imageData.height < MinBlock) => Emitted = <<>>

\* a 6x4 bitmap analysed with blockSize 4: the block at (0, 0) is emitted,
\* the 2-wide block at (4, 0), which would fail if analysed, is not
C16_Witness ==
    /\ gridPc = "analysed"
    /\ blockSize = 4
    /\ imageData.width = 6 /\ imageData.height = 4
    /\ Len(Emitted) = 1
    /\ Emitted[1].x = 0 /\ Emitted[1].y = 0
    /\ ~analyzeUIRegion(imageData, 4, 0, 2, 4).compliant

(***************************************************************************)
(* Specification SpecWorkers: the body of gridAnalysis's loops run once    *)
(* per block origin, the origins taken in any order, the records collected *)
(* in the order the blocks finish and sorted on (y, x) at the end          *)
(***************************************************************************)
\* largest bitmap side
MaxWorkerSide == 8

WorkerPaints == {<<Grey128, Grey100>>, <<Grey100, Grey128, Grey170>>}

WorkerBitmaps ==
    {Bitmap(w, h, kind, colors, band) :
        w \in MinBlock..MaxWorkerSide, h \in MinBlock..MaxWorkerSide,
        kind \in {"vbands", "hbands"}, colors \in WorkerPaints, band \in 2..3}

\* the origins the two for loops visit
AllOrigins(img, bs) ==
    {<<i * bs, j * bs>> : i \in 0..((img.width + bs - 1) \div bs - 1),
                          j \in 0..((img.height + bs - 1) \div bs - 1)}

\* The loop body for the block at origin o = <<x, y>>.
EvaluateBlock(o) ==
    /\ workerPc = "evaluating"
    /\ o \in pendingBlocks
    /\ pendingBlocks' = pendingBlocks \ {o}
    /\ LET x == o[1]
           y == o[2]
           w == Min(blockSize, imageData.width - x)
           h == Min(blockSize, imageData.height - y)
       IN IF w < MinBlock \/ h < MinBlock
          THEN UNCHANGED collected
          ELSE LET regionResult == analyzeUIRegion(imageData, x, y, w, h)
               IN IF ~regionResult.compliant
                  THEN collected' =
                           Append(collected,
                                  [score |-> regionResult.score,
                                   ratio |-> regionResult.ratio,
                                   colors |-> regionResult.colors,
                                   compliant |-> regionResult.compliant,
                                   x |-> x, y |-> y])
                  ELSE UNCHANGED collected
    /\ UNCHANGED <<sortedResults, workerPc>>

Range(s) == {s[i] : i \in DOMAIN s}

\* record q comes before record r in the order on (y, x)
BeforeYX(q, r) == q.y < r.y \/ (q.y = r.y /\ q.x < r.x)

\* s sorted on (y, x); the records of s have distinct origins
SortByYX(s) ==
    [i \in 1..Len(s) |->
        CHOOSE r \in Range(s) :
            Cardinality({q \in Range(s) : BeforeYX(q, r)}) = i - 1]

\* every block has been evaluated: restore the order
SortCollected ==
    /\ workerPc = "evaluating"
    /\ pendingBlocks = {}
    /\ sortedResults' = SortByYX(collected)
    /\ workerPc' = "sorted"
    /\ UNCHANGED <<pendingBlocks, collected>>

InitWorkers ==
    /\ imageData \in WorkerBitmaps
    /\ blockSize = MinBlock
    /\ pendingBlocks = AllOrigins(imageData, blockSize)
    /\ collected = <<>> /\ sortedResults = <<>>
    /\ workerPc = "evaluating"
    /\ results = Null
    /\ gridPc = "idle" /\ contrastThreshold = 0
    /\ shownRedraw = <<>> /\ shownAnalyze = <<>> /\ shownDisplay = <<>>
    /\ rgb1 = Black /\ rgb2 = Black
    /\ ratioFwd = 0 /\ ratioRev = 0 /\ pairResults = <<>>
    /\ evalPc = "idle"
    /\ currentZoom = ZoomOne
    /\ currentScreenshot = NoScreenshot
    /\ imagePosition = [x |-> 0, y |-> 0]
    /\ currentThreshold = 1000
    /\ allWarnings = <<>>
    /\ filteredWarnings = <<>>
    /\ analyzeBtn = [disabled |-> FALSE, textContent |-> "Analyze Current Page"]
    /\ resultsDiv = [view |-> "empty"]
    /\ thresholdControls = "none"
    /\ canvasWarnings = <<>>
    /\ originalImageData = NoImage
    /\ clickPc = "idle"
    /\ dataUrl = NoImage
    /\ isDragging = FALSE /\ dragStart = [x |-> 0, y |-> 0]
    /\ screenshotContainer = "empty"
    /\ scoreRatio1 = 0 /\ scoreRatio2 = 0 /\ score1 = 0 /\ score2 = 0
    /\ scorePc = "idle"
    /\ kmInput = <<>> /\ kmColors = <<>> /\ kmK = 0 /\ kmCentroids = <<>>
    /\ kmIteration = 0 /\ kmBroke = FALSE /\ kmReturned = <<>> /\ kmPc = "idle"
    /\ regionImage = NoImage
    /\ regionRect = [x |-> 0, y |-> 0, width |-> 0, height |-> 0]
    /\ sampled = <<>>
    /\ regionOutcome = [score |-> 0, ratio |-> 0, colors |-> <<>>, compliant |-> TRUE]
    /\ regionPc = "idle"
    /\ domDocument = <<>> /\ domReturned = <<>> /\ domPc = "idle"
    /\ scanX = 0 /\ scanY = 0 /\ visited = <<>> /\ passedRegions = <<>>
    /\ scanResults = <<>> /\ scanPc = "idle"
    /\ imageUrl = Null /\ isLoading = FALSE /\ error = Null
    /\ queriesPending = 0 /\ capturesPending = 0 /\ analysesPending = <<>>

WorkersNext ==
    \/ \E o \in AllOrigins(imageData, blockSize) :
          EvaluateBlock(o) /\ UNCHANGED <<evalVars, gridVars, popupVars, scoreVars,
                                         kmVars, regionVars, domVars, moreVars>>
    \/ SortCollected /\ UNCHANGED <<evalVars, gridVars, popupVars, scoreVars,
                                    kmVars, regionVars, domVars, moreVars>>

SpecWorkers == InitWorkers /\ [][WorkersNext]_vars

\* C17: whatever the order in which the blocks are evaluated, the
\* non-compliant records collected and sorted on (y, x) are exactly the
\* sequence the sequential gridAnalysis returns for the same bitmap and
\* blockSize; a block's record does not depend on what was evaluated before.
C17_AnyOrderSortedEqualsSequential ==
    /\ workerPc = "sorted" => sortedResults = gridAnalysis(imageData, blockSize)
    /\ \A i \in DOMAIN collected :
          LET r == collected[i]
              a == analyzeUIRegion(imageData, r.x, r.y,
                                   BlockW(imageData, blockSize, r.x),
                                   BlockH(imageData, blockSize, r.y))
          IN /\ r.ratio = a.ratio /\ r.score = a.score /\ r.colors = a.colors
             /\ ~a.compliant

\* four blocks, two of them compliant; the two failing ones finished out of
\* order and were sorted
C17_Witness ==
    /\ workerPc = "sorted"
    /\ Cardinality(AllOrigins(imageData, blockSize)) = 4
    /\ Len(collected) = 2
    /\ BeforeYX(collected[2], collected[1])
    /\ sortedResults = <<collected[2], collected[1]>>

(***************************************************************************)
(* Specification SpecDom: the DOM-based variant, analyzePageContrast and   *)
(* analyzeDOMElements (src/unnamed/part_000), on a document                *)
(*                                                                         *)
(* A computed colour is held as the form of its string and its numbers:    *)
(* "rgb" for rgb(r, g, b), "rgba" for rgba(r, g, b, a) with a in           *)
(* hundredths, "transparent", "color" for a color(...) string, "empty" for *)
(* the empty string.  A document is its number of elements n, the styles   *)
(* of its elements as a repeating pattern, and the style of its last       *)
(* element; element i (from 0) has its box at x = i.                       *)
(***************************************************************************)
\* the limits of analyzeDOMElements: elements looked at, smallest box side,
\* violations returned
DomMaxElements == 200
MinRectSide == 20
DomMaxReturned == 15

\* largest document
MaxDocument == 201

CssRgb(r, g, b) == [fmt |-> "rgb", r |-> r, g |-> g, b |-> b, a |-> 100]
CssRgba(r, g, b, a) == [fmt |-> "rgba", r |-> r, g |-> g, b |-> b, a |-> a]
CssOther(fmt) == [fmt |-> fmt, r |-> 0, g |-> 0, b |-> 0, a |-> 0]

Style(tag, width, height, bg, text) ==
    [tagName |-> tag, width |-> width, height |-> height,
     backgroundColor |-> bg, color |-> text]

LowA == Style("DIV", 100, 20, CssRgb(128, 128, 128), CssRgb(100, 100, 100))
LowB == Style("P", 300, 40, CssRgb(100, 100, 100), CssRgb(101, 100, 100))
LowC == Style("SPAN", 20, 20, CssRgba(128, 128, 128, 50), CssRgb(170, 170, 170))
Passing == Style("DIV", 100, 100, CssRgb(255, 255, 255), CssRgb(0, 0, 0))
SameColors == Style("DIV", 100, 100, CssRgb(100, 100, 100), CssRgb(100, 100, 100))
TooSmall == Style("B", 19, 100, CssRgb(100, 100, 100), CssRgb(101, 100, 100))
TransparentBg == Style("DIV", 100, 100, CssRgba(0, 0, 0, 0), CssRgb(100, 100, 100))
TransparentKeyword == Style("DIV", 100, 100, CssOther("transparent"), CssRgb(100, 100, 100))
EmptyBg == Style("DIV", 100, 100, CssOther("empty"), CssRgb(100, 100, 100))
UnparsedBg == Style("DIV", 100, 100, CssOther("color"), CssRgb(100, 100, 100))
TransparentText == Style("DIV", 100, 100, CssRgb(128, 128, 128), CssRgba(0, 0, 0, 0))

DomPatterns ==
    {<<LowB>>, <<Passing>>, <<LowA, LowC>>, <<LowC, LowA, Passing>>,
     <<TooSmall, LowA, SameColors>>,
     <<TransparentBg, LowC, TransparentKeyword>>,
     <<EmptyBg, UnparsedBg, LowA>>, <<TransparentText, LowB, LowA>>}

DocumentSizes ==
    {0, 1, 2, DomMaxReturned, DomMaxReturned + 1, 2 * DomMaxReturned,
     DomMaxElements, MaxDocument}

Documents ==
    {[n |-> n, pattern |-> pattern, last |-> last] :
        n \in DocumentSizes, pattern \in DomPatterns, last \in {LowB, Passing}}

\* elements[i], i from 0
ElementAt(doc, i) ==
    IF i = doc.n - 1 THEN doc.last
    ELSE doc.pattern[(i % Len(doc.pattern)) + 1]

\* colorStr.match(/rgba?\((\d+),\s*(\d+),\s*(\d+)/): the three numbers of an
\* rgb(...) or rgba(...) string, the alpha dropped; null for any other string
parseColor(colorStr) ==
    IF colorStr.fmt \in {"rgb", "rgba"}
    THEN NonNull(RGB(colorStr.r, colorStr.g, colorStr.b))
    ELSE Null

IsTransparentBlack(colorStr) ==
    colorStr.fmt = "rgba" /\ colorStr.r = 0 /\ colorStr.g = 0 /\ colorStr.b = 0
        /\ colorStr.a = 0

\* the element gets past every `continue` of the loop body and both of its
\* colours parse
HasColors(element) ==
    /\ ~(element.width < MinRectSide \/ element.height < MinRectSide)
    /\ ~(\/ element.backgroundColor.fmt = "empty"
          \/ element.color.fmt = "empty"
          \/ IsTransparentBlack(element.backgroundColor)
          \/ element.backgroundColor.fmt = "transparent"
          \/ IsTransparentBlack(element.color))
    /\ parseColor(element.backgroundColor) # Null
    /\ parseColor(element.color) # Null

ElementRatio(element) ==
    getContrastRatio(ValueOf(parseColor(element.backgroundColor)),
                     ValueOf(parseColor(element.color)))

\* violations.sort((a, b) => a.ratio - b.ratio): by non-decreasing ratio,
\* records of equal ratio in their original order
SortByRatio(s) ==
    LET key == [i \in 1..Len(s) |-> s[i].ratio]
        rank == [i \in 1..Len(s) |->
                    1 + Cardinality({j \in 1..Len(s) : key[j] < key[i]})
                      + Cardinality({j \in 1..(i - 1) : key[j] = key[i]})]
    IN [p \in 1..Len(s) |-> s[CHOOSE i \in 1..Len(s) : rank[i] = p]]

\* The violations of the first `limit` elements, sorted, the first
\* DomMaxReturned of them.  (processedElements never holds the element at
\* hand: querySelectorAll lists each element once.)
ViolationsAmong(doc, limit) ==
    LET failing == SelectSeq([i \in 1..limit |-> i - 1],
                             LAMBDA i : /\ HasColors(ElementAt(doc, i))
                                        /\ ElementRatio(ElementAt(doc, i)) < WcagAA)
        violations ==
            [j \in 1..Len(failing) |->
                LET element == ElementAt(doc, failing[j])
                    ratio == ElementRatio(element)
                IN [ratio |-> ratio,
                    score |-> uiContrastViolationScore(ratio),
                    x |-> failing[j], y |-> 0,
                    colors |-> <<ValueOf(parseColor(element.backgroundColor)),
                                 ValueOf(parseColor(element.color))>>,
                    compliant |-> FALSE,
                    element |-> element.tagName]]
        sorted == SortByRatio(violations)
    IN SubSeq(sorted, 1, Min(DomMaxReturned, Len(sorted)))

\* A bug analyzeDOMElements could have: every element of the document
\* looked at, with no limit of 200.
analyzeDOMElementsUnlimited(doc) == ViolationsAmong(doc, doc.n)

\* for (let i = 0; i < Math.min(elements.length, 200); i++) ...
analyzeDOMElements(doc) == ViolationsAmong(doc, Min(doc.n, DomMaxElements))

\* analyzePageContrast: try { return analyzeDOMElements(); }
CallAnalyzePageContrast ==
    /\ domPc = "ready"
    /\ domReturned' = analyzeDOMElements(domDocument)
    /\ domPc' = "done"
    /\ UNCHANGED domDocument

InitDom ==
    /\ domDocument \in Documents
    /\ domReturned = <<>>
    /\ domPc = "ready"
    /\ rgb1 = Black /\ rgb2 = Black
    /\ ratioFwd = 0 /\ ratioRev = 0 /\ pairResults = <<>>
    /\ evalPc = "idle"
    /\ imageData = NoImage /\ blockSize = 0 /\ results = Null
    /\ gridPc = "idle" /\ contrastThreshold = 0
    /\ shownRedraw = <<>> /\ shownAnalyze = <<>> /\ shownDisplay = <<>>
    /\ currentZoom = ZoomOne
    /\ currentScreenshot = NoScreenshot
    /\ imagePosition = [x |-> 0, y |-> 0]
    /\ currentThreshold = 1000
    /\ allWarnings = <<>>
    /\ filteredWarnings = <<>>
    /\ analyzeBtn = [disabled |-> FALSE, textContent |-> "Analyze Current Page"]
    /\ resultsDiv = [view |-> "empty"]
    /\ thresholdControls = "none"
    /\ canvasWarnings = <<>>
    /\ originalImageData = NoImage
    /\ clickPc = "idle"
    /\ dataUrl = NoImage
    /\ isDragging = FALSE /\ dragStart = [x |-> 0, y |-> 0]
    /\ screenshotContainer = "empty"
    /\ scoreRatio1 = 0 /\ scoreRatio2 = 0 /\ score1 = 0 /\ score2 = 0
    /\ scorePc = "idle"
    /\ kmInput = <<>> /\ kmColors = <<>> /\ kmK = 0 /\ kmCentroids = <<>>
    /\ kmIteration = 0 /\ kmBroke = FALSE /\ kmReturned = <<>> /\ kmPc = "idle"
    /\ regionImage = NoImage
    /\ regionRect = [x |-> 0, y |-> 0, width |-> 0, height |-> 0]
    /\ sampled = <<>>
    /\ regionOutcome = [score |-> 0, ratio |-> 0, colors |-> <<>>, compliant |-> TRUE]
    /\ regionPc = "idle"
    /\ pendingBlocks = {} /\ collected = <<>> /\ sortedResults = <<>>
    /\ workerPc = "idle"
    /\ scanX = 0 /\ scanY = 0 /\ visited = <<>> /\ passedRegions = <<>>
    /\ scanResults = <<>> /\ scanPc = "idle"
    /\ imageUrl = Null /\ isLoading = FALSE /\ error = Null
    /\ queriesPending = 0 /\ capturesPending = 0 /\ analysesPending = <<>>

DomNext ==
    CallAnalyzePageContrast /\ UNCHANGED <<evalVars, gridVars, popupVars, scoreVars,
                                          kmVars, regionVars, workerVars, moreVars>>

SpecDom == InitDom /\ [][DomNext]_vars

\* C18: every violation the DOM-based variant returns has ratio < 3.0 and
\* compliant = false and is the record of one of the first 200 elements of
\* the document; the list is sorted by non-decreasing ratio and has at most
\* 15 entries.
C18_DomViolationsBelowThreeSortedCapped ==
    domPc = "done" =>
        /\ Len(domReturned) <= DomMaxReturned
        /\ \A i \in DOMAIN domReturned :
              LET v == domReturned[i]
              IN /\ v.ratio < WcagAA
                 /\ v.compliant = FALSE
                 /\ v.x >= 0 /\ v.x < DomMaxElements /\ v.x < domDocument.n
                 /\ HasColors(ElementAt(domDocument, v.x))
                 /\ v.ratio = ElementRatio(ElementAt(domDocument, v.x))
        /\ \A i, j \in DOMAIN domReturned :
              i < j => domReturned[i].ratio <= domReturned[j].ratio

\* a document of 201 elements whose last element has the lowest ratio of
\* all: 15 violations of two different ratios are returned, the last
\* element is not among them
C18_Witness ==
    /\ domPc = "done"
    /\ domDocument.n = DomMaxElements + 1
    /\ domDocument.last = LowB
    /\ Len(domReturned) = DomMaxReturned
    /\ domReturned[1].ratio > ElementRatio(LowB)
    /\ \E i \in DOMAIN domReturned : domReturned[i].x > DomMaxReturned

IsRGBSeq(s, n) ==
    /\ Len(s) = n
    /\ \A i \in DOMAIN s :
          /\ DOMAIN s[i] = {"r", "g", "b"}
          /\ s[i].r \in 0..255 /\ s[i].g \in 0..255 /\ s[i].b \in 0..255

\* the bitmap, four rows high, whose samples are the colours of s, row by row
SampledAs(s) == Bitmap(2 * Len(s), 4, "vbands", s, 2)

\* C22: on more than k colours with channels in 0..255 there are exactly k
\* centroids with channels in 0..255 at every pass and in the returned
\* sequence; the colours of every record gridAnalysis emits are exactly 2
\* RGB triples of integers in 0..255.
C22_CentroidsStayInRange ==
    /\ kmPc = "loop" => IsRGBSeq(kmCentroids, kmK)
    /\ (kmPc = "returned" /\ Len(kmInput) > kmK) => IsRGBSeq(kmReturned, kmK)
    /\ Len(kmInput) >= 2 =>
          \A i \in DOMAIN gridAnalysis(SampledAs(kmInput), 2 * Len(kmInput)) :
              IsRGBSeq(gridAnalysis(SampledAs(kmInput), 2 * Len(kmInput))[i].colors, 2)

\* after a pass of a run with more colours than centroids one centroid is
\* a rounded mean, not one of the colours passed, and the bitmap sampled as
\* the input emits a record
C22_Witness ==
    /\ kmPc = "loop"
    /\ kmIteration >= 1
    /\ kmK = 2
    /\ Len(kmInput) > kmK
    /\ \E j \in 1..kmK : \A i \in DOMAIN kmInput : kmCentroids[j] # kmInput[i]
    /\ Len(gridAnalysis(SampledAs(kmInput), 2 * Len(kmInput))) = 1

(***************************************************************************)
(* Specification SpecScan: the two for loops of gridAnalysis, one loop     *)
(* test or one loop body per step.  visited lists the origins the body ran *)
(* for, passedRegions the regions handed to analyzeUIRegion and from there *)
(* to extractDominantColors, scanResults is the array `results`.           *)
(***************************************************************************)
\* largest bitmap side and largest blockSize
MaxScanSide == 9
MaxScanBlock == 5

ScanPaints == {<<Grey128, Grey100>>, <<Grey100>>}

ScanBitmaps ==
    {Bitmap(w, h, kind, colors, 2) :
        w \in 1..MaxScanSide, h \in 1..MaxScanSide,
        kind \in {"vbands", "hbands"}, colors \in ScanPaints}

\* A bug the outer loop could have: x declared outside the loops and never
\* set back to 0 for the next row.
ScanRowTestKeepX ==
    /\ scanPc = "outer"
    /\ scanY < imageData.height
    /\ scanPc' = "inner"
    /\ UNCHANGED <<scanX, scanY, visited, passedRegions, scanResults>>

\* for (let y = 0; y < height; ...): the test holds, the inner loop starts
\* with let x = 0
ScanRowTest ==
    /\ scanPc = "outer"
    /\ scanY < imageData.height
    /\ scanX' = 0
    /\ scanPc' = "inner"
    /\ UNCHANGED <<scanY, visited, passedRegions, scanResults>>

\* the outer test fails: return results
ScanReturn ==
    /\ scanPc = "outer"
    /\ ~(scanY < imageData.height)
    /\ scanPc' = "returned"
    /\ UNCHANGED <<scanX, scanY, visited, passedRegions, scanResults>>

\* A bug the body could have: the block taken blockSize wide and high
\* without clamping to what is left of the bitmap.
ScanBodyUnclamped ==
    /\ scanPc = "inner"
    /\ scanX < imageData.width
    /\ visited' = Append(visited, <<scanX, scanY>>)
    /\ LET w == blockSize
           h == blockSize
       IN IF w < MinBlock \/ h < MinBlock
          THEN UNCHANGED <<passedRegions, scanResults>>
          ELSE LET regionResult == analyzeUIRegion(imageData, scanX, scanY, w, h)
               IN /\ passedRegions' =
                        Append(passedRegions,
                               [x |-> scanX, y |-> scanY, width |-> w, height |-> h])
                  /\ IF ~regionResult.compliant
                     THEN scanResults' =
                              Append(scanResults,
                                     [score |-> regionResult.score,
                                      ratio |-> regionResult.ratio,
                                      colors |-> regionResult.colors,
                                      compliant |-> regionResult.compliant,
                                      x |-> scanX, y |-> scanY])
                     ELSE UNCHANGED scanResults
    /\ scanX' = scanX + blockSize
    /\ UNCHANGED <<scanY, scanPc>>

\* for (let x = 0; x < width; x += blockSize): the test holds, the body runs
\* (`continue` included) and x is advanced
ScanBody ==
    /\ scanPc = "inner"
    /\ scanX < imageData.width
    /\ visited' = Append(visited, <<scanX, scanY>>)
    /\ LET w == Min(blockSize, imageData.width - scanX)
           h == Min(blockSize, imageData.height - scanY)
       IN IF w < MinBlock \/ h < MinBlock
          THEN UNCHANGED <<passedRegions, scanResults>>
          ELSE LET regionResult == analyzeUIRegion(imageData, scanX, scanY, w, h)
               IN /\ passedRegions' =
                        Append(passedRegions,
                               [x |-> scanX, y |-> scanY, width |-> w, height |-> h])
                  /\ IF ~regionResult.compliant
                     THEN scanResults' =
                              Append(scanResults,
                                     [score |-> regionResult.score,
                                      ratio |-> regionResult.ratio,
                                      colors |-> regionResult.colors,
                                      compliant |-> regionResult.compliant,
                                      x |-> scanX, y |-> scanY])
                     ELSE UNCHANGED scanResults
    /\ scanX' = scanX + blockSize
    /\ UNCHANGED <<scanY, scanPc>>

\* the inner test fails: y += blockSize and back to the outer test
ScanRowEnd ==
    /\ scanPc = "inner"
    /\ ~(scanX < imageData.width)
    /\ scanY' = scanY + blockSize
    /\ scanPc' = "outer"
    /\ UNCHANGED <<scanX, visited, passedRegions, scanResults>>

InitScan ==
    /\ imageData \in ScanBitmaps
    /\ blockSize \in 1..MaxScanBlock
    /\ scanX = 0 /\ scanY = 0 /\ visited = <<>> /\ passedRegions = <<>>
    /\ scanResults = <<>> /\ scanPc = "outer"
    /\ results = Null
    /\ gridPc = "idle" /\ contrastThreshold = 0
    /\ shownRedraw = <<>> /\ shownAnalyze = <<>> /\ shownDisplay = <<>>
    /\ rgb1 = Black /\ rgb2 = Black
    /\ ratioFwd = 0 /\ ratioRev = 0 /\ pairResults = <<>>
    /\ evalPc = "idle"
    /\ currentZoom = ZoomOne
    /\ currentScreenshot = NoScreenshot
    /\ imagePosition = [x |-> 0, y |-> 0]
    /\ currentThreshold = 1000
    /\ allWarnings = <<>>
    /\ filteredWarnings = <<>>
    /\ analyzeBtn = [disabled |-> FALSE, textContent |-> "Analyze Current Page"]
    /\ resultsDiv = [view |-> "empty"]
    /\ thresholdControls = "none"
    /\ canvasWarnings = <<>>
    /\ originalImageData = NoImage
    /\ clickPc = "idle"
    /\ dataUrl = NoImage
    /\ isDragging = FALSE /\ dragStart = [x |-> 0, y |-> 0]
    /\ screenshotContainer = "empty"
    /\ scoreRatio1 = 0 /\ scoreRatio2 = 0 /\ score1 = 0 /\ score2 = 0
    /\ scorePc = "idle"
    /\ kmInput = <<>> /\ kmColors = <<>> /\ kmK = 0 /\ kmCentroids = <<>>
    /\ kmIteration = 0 /\ kmBroke = FALSE /\ kmReturned = <<>> /\ kmPc = "idle"
    /\ regionImage = NoImage
    /\ regionRect = [x |-> 0, y |-> 0, width |-> 0, height |-> 0]
    /\ sampled = <<>>
    /\ regionOutcome = [score |-> 0, ratio |-> 0, colors |-> <<>>, compliant |-> TRUE]
    /\ regionPc = "idle"
    /\ pendingBlocks = {} /\ collected = <<>> /\ sortedResults = <<>>
    /\ workerPc = "idle"
    /\ domDocument = <<>> /\ domReturned = <<>> /\ domPc = "idle"
    /\ imageUrl = Null /\ isLoading = FALSE /\ error = Null
    /\ queriesPending = 0 /\ capturesPending = 0 /\ analysesPending = <<>>

ScanNext ==
    \/ ScanRowTest /\ UNCHANGED <<evalVars, gridVars, popupVars, scoreVars, kmVars,
                                  regionVars, workerVars, domVars, appVars>>
    \/ ScanReturn /\ UNCHANGED <<evalVars, gridVars, popupVars, scoreVars, kmVars,
                                 regionVars, workerVars, domVars, appVars>>
    \/ ScanBody /\ UNCHANGED <<evalVars, gridVars, popupVars, scoreVars, kmVars,
                               regionVars, workerVars, domVars, appVars>>
    \/ ScanRowEnd /\ UNCHANGED <<evalVars, gridVars, popupVars, scoreVars, kmVars,
                                 regionVars, workerVars, domVars, appVars>>

SpecScan == InitScan /\ [][ScanNext]_vars

\* ScanBody can run exactly when its loop test holds, and it always extends
\* `visited`
ScanBodyEnabled == scanPc = "inner" /\ scanX < imageData.width

\* The loops are straight-line code: a step that can be taken is taken.
\* The last conjunct is WF_scanVars(ScanBody) with ENABLED <<ScanBody>>_scanVars
\* written out as ScanBodyEnabled.
SpecScanLive ==
    /\ SpecScan
    /\ WF_scanVars(ScanRowTest) /\ WF_scanVars(ScanReturn) /\ WF_scanVars(ScanRowEnd)
    /\ ([]<>(~ScanBodyEnabled) \/ []<><<ScanBody>>_scanVars)

\* the block origins of the bitmap: multiples of bs inside the bitmap
BlockOrigins(img, bs) ==
    {o \in (0..(img.width - 1)) \X (0..(img.height - 1)) :
        o[1] % bs = 0 /\ o[2] % bs = 0}

\* origin p = <<x, y>> comes before origin q in row-major order
RowMajorBefore(p, q) == p[2] < q[2] \/ (p[2] = q[2] /\ p[1] < q[1])

\* the origins visited so far are block origins of the bitmap, in row-major
\* order; the records emitted so far have origins that are multiples of
\* blockSize, in strictly increasing (y, x) order and pairwise distinct
ScanInOrder ==
    /\ \A i \in DOMAIN visited :
          /\ visited[i] \in BlockOrigins(imageData, blockSize)
          /\ \A j \in DOMAIN visited :
                i < j => RowMajorBefore(visited[i], visited[j])
    /\ \A i \in DOMAIN scanResults :
          /\ scanResults[i].x % blockSize = 0
          /\ scanResults[i].y % blockSize = 0
          /\ \A j \in DOMAIN scanResults :
                i < j => /\ BeforeYX(scanResults[i], scanResults[j])
                         /\ <<scanResults[i].x, scanResults[i].y>>
                                # <<scanResults[j].x, scanResults[j].y>>

\* the body has run for each block origin of the bitmap exactly once, and
\* the array built is the one gridAnalysis computes
ScanComplete ==
    /\ Range(visited) = BlockOrigins(imageData, blockSize)
    /\ Len(visited) = Cardinality(BlockOrigins(imageData, blockSize))
    /\ scanResults = gridAnalysis(imageData, blockSize)

\* C23: for positive blockSize gridAnalysis returns; it has then run its
\* body for each block origin of the bitmap exactly once, and at every
\* moment the origins visited are in row-major order; the records emitted
\* have origins that are multiples of blockSize and are in strictly
\* increasing (y, x) order, hence pairwise distinct.
C23_TerminatesRowMajorOnce ==
    /\ [](ScanInOrder /\ (scanPc = "returned" => ScanComplete))
    /\ <>(scanPc = "returned")

\* a scan of three rows of three blocks has returned: blocks were skipped
\* as too narrow, and records were emitted in more than one row
C23_Witness ==
    /\ scanPc = "returned"
    /\ Len(visited) = 9
    /\ Len(passedRegions) = 4
    /\ Len(scanResults) >= 3
    /\ \E i, j \in DOMAIN scanResults : scanResults[i].y # scanResults[j].y

\* ceil(n / 2)
HalfUp(n) == (n + 1) \div 2

\* C24: every region gridAnalysis hands to the sampler lies inside the
\* bitmap (x + width <= bitmap width, y + height <= bitmap height); every
\* index the sampler reads is inside the data buffer and is an R, G or B
\* byte, never an alpha byte; the bounds check skips no pixel; the sampler
\* takes exactly ceil(width/2) * ceil(height/2) samples, the pixels at the
\* even offsets from the region origin, row by row.
C24_RegionsInsideBitmap ==
    \A k \in DOMAIN passedRegions :
        LET r == passedRegions[k]
            colors == SampleColors(imageData, r.x, r.y, r.width, r.height)
        IN /\ r.x + r.width <= imageData.width
           /\ r.y + r.height <= imageData.height
           /\ \A idx \in SamplerReads(imageData, r.x, r.y, r.width, r.height) :
                 /\ 0 <= idx /\ idx < imageData.width * imageData.height * 4
                 /\ idx % 4 # 3
           /\ \A n \in DOMAIN SamplerPixels(r.x, r.y, r.width, r.height) :
                 ~SamplerSkips(imageData, SamplerPixels(r.x, r.y, r.width, r.height)[n])
           /\ Len(colors) = HalfUp(r.width) * HalfUp(r.height)
           /\ \A n \in DOMAIN colors :
                 colors[n] = PixelColor(imageData,
                                        r.x + 2 * ((n - 1) % HalfUp(r.width)),
                                        r.y + 2 * ((n - 1) \div HalfUp(r.width)))

\* a block clamped to what is left of the bitmap, of odd height, has been
\* handed to the sampler: it reaches the right edge and gives 2 * 3 samples
C24_Witness ==
    /\ scanPc = "returned"
    /\ \E k \in DOMAIN passedRegions :
          /\ passedRegions[k].width < blockSize
          /\ passedRegions[k].x + passedRegions[k].width = imageData.width
          /\ passedRegions[k].height = 5
          /\ Len(SampleColors(imageData, passedRegions[k].x, passedRegions[k].y,
                              passedRegions[k].width, passedRegions[k].height)) = 6

(***************************************************************************)
(* Specification SpecZoom: the popup's zoom, pan and drag handlers next to *)
(* the analyze button's click handler.                                     *)
(*                                                                         *)
(* imagePosition and the mouse coordinates are in whole pixels; a quotient *)
(* by currentZoom is truncated towards zero.  The document's mousemove and *)
(* mouseup listeners are attached by handleMouseDown right after it sets   *)
(* isDragging and removed by handleMouseUp right after it clears it, so    *)
(* they are attached exactly while isDragging holds.  The mousedown and    *)
(* wheel listeners are on the screenshot element, which receives events    *)
(* only while it is in screenshotContainer.                                *)
(***************************************************************************)
\* largest pan offset explored, in pixels, and the mouse positions
MaxPan == 5
MouseCoords == {0, 4}

\* the arrow keys move the image by 20 / currentZoom
PanStep == 20

\* the screenshot captured in this specification
ZoomBitmaps == {Bitmap(4, 4, "vbands", <<Grey128, Grey100>>, 2)}

Keys == {"+", "=", "-", "0", "ArrowLeft", "ArrowRight", "ArrowUp", "ArrowDown", "a"}

\* a / b truncated towards zero
Quot(a, b) == IF a >= 0 THEN a \div b ELSE -((-a) \div b)

\* px / currentZoom
DivByZoom(px) == Quot(px * ZoomOne, currentZoom)

clickVars == <<currentScreenshot, currentThreshold, allWarnings, filteredWarnings,
               analyzeBtn, resultsDiv, thresholdControls, canvasWarnings,
               originalImageData, clickPc, dataUrl, screenshotContainer>>

\* zoomInBtn, zoomOutBtn, resetZoomBtn click
ZoomInBtnClick ==
    /\ zoomIn
    /\ UNCHANGED <<imagePosition, isDragging, dragStart, clickVars>>

ZoomOutBtnClick ==
    /\ zoomOut
    /\ UNCHANGED <<imagePosition, isDragging, dragStart, clickVars>>

ResetZoomBtnClick ==
    /\ resetZoom
    /\ UNCHANGED <<isDragging, dragStart, clickVars>>

\* document keydown with e.key = key
Keydown(key) ==
    /\ currentScreenshot # NoScreenshot
    /\ CASE key \in {"+", "="} -> zoomIn /\ UNCHANGED imagePosition
         [] key = "-" -> zoomOut /\ UNCHANGED imagePosition
         [] key = "0" -> resetZoom
         [] key = "ArrowLeft" ->
                /\ IF currentZoom > ZoomOne
                   THEN imagePosition' =
                            [imagePosition EXCEPT !.x = @ + DivByZoom(PanStep)]
                   ELSE UNCHANGED imagePosition
                /\ UNCHANGED currentZoom
         [] key = "ArrowRight" ->
                /\ IF currentZoom > ZoomOne
                   THEN imagePosition' =
                            [imagePosition EXCEPT !.x = @ - DivByZoom(PanStep)]
                   ELSE UNCHANGED imagePosition
                /\ UNCHANGED currentZoom
         [] key = "ArrowUp" ->
                /\ IF currentZoom > ZoomOne
                   THEN imagePosition' =
                            [imagePosition EXCEPT !.y = @ + DivByZoom(PanStep)]
                   ELSE UNCHANGED imagePosition
                /\ UNCHANGED currentZoom
         [] key = "ArrowDown" ->
                /\ IF currentZoom > ZoomOne
                   THEN imagePosition' =
                            [imagePosition EXCEPT !.y = @ - DivByZoom(PanStep)]
                   ELSE UNCHANGED imagePosition
                /\ UNCHANGED currentZoom
         [] OTHER -> UNCHANGED <<currentZoom, imagePosition>>
    /\ UNCHANGED <<isDragging, dragStart, clickVars>>

\* handleWheel(e) with e.deltaY = deltaY, on the screenshot element
handleWheel(deltaY) ==
    /\ screenshotContainer # "empty"
    /\ IF deltaY < 0 THEN zoomIn ELSE zoomOut
    /\ UNCHANGED <<imagePosition, isDragging, dragStart, clickVars>>

\* handleMouseDown(e) on the screenshot element
handleMouseDown(clientX, clientY) ==
    /\ screenshotContainer # "empty"
    /\ IF currentZoom <= ZoomOne
       THEN UNCHANGED <<isDragging, dragStart>>
       ELSE /\ isDragging' = TRUE
            /\ dragStart' = [x |-> clientX, y |-> clientY]
    /\ UNCHANGED <<currentZoom, imagePosition, clickVars>>

\* handleMouseMove(e), attached to the document while dragging
handleMouseMove(clientX, clientY) ==
    /\ isDragging
    /\ imagePosition' =
          [x |-> imagePosition.x + DivByZoom(clientX - dragStart.x),
           y |-> imagePosition.y + DivByZoom(clientY - dragStart.y)]
    /\ dragStart' = [x |-> clientX, y |-> clientY]
    /\ UNCHANGED <<currentZoom, isDragging, clickVars>>

\* handleMouseUp(), attached to the document while dragging
handleMouseUp ==
    /\ isDragging
    /\ isDragging' = FALSE
    /\ UNCHANGED <<currentZoom, imagePosition, dragStart, clickVars>>

\* the pan offsets explored
InPanRange(pos) ==
    /\ -MaxPan <= pos.x /\ pos.x <= MaxPan
    /\ -MaxPan <= pos.y /\ pos.y <= MaxPan

ZoomNext ==
    \/ ClickAnalyze /\ UNCHANGED <<evalVars, gridVars, unitVars>>
    \/ \E bitmap \in ZoomBitmaps :
          CaptureResolved(bitmap) /\ UNCHANGED <<evalVars, gridVars, unitVars>>
    \/ CaptureRejected /\ UNCHANGED <<evalVars, gridVars, unitVars>>
    \/ ImgOnload /\ UNCHANGED <<evalVars, gridVars, unitVars>>
    \/ ImgError /\ UNCHANGED <<evalVars, gridVars, unitVars>>
    \/ ZoomInBtnClick /\ UNCHANGED <<evalVars, gridVars, unitVars>>
    \/ ZoomOutBtnClick /\ UNCHANGED <<evalVars, gridVars, unitVars>>
    \/ ResetZoomBtnClick /\ UNCHANGED <<evalVars, gridVars, unitVars>>
    \/ \E key \in Keys :
          Keydown(key) /\ InPanRange(imagePosition')
                       /\ UNCHANGED <<evalVars, gridVars, unitVars>>
    \/ \E deltaY \in {-1, 0, 1} :
          handleWheel(deltaY) /\ UNCHANGED <<evalVars, gridVars, unitVars>>
    \/ \E clientX \in MouseCoords, clientY \in MouseCoords :
          handleMouseDown(clientX, clientY) /\ UNCHANGED <<evalVars, gridVars, unitVars>>
    \/ \E clientX \in MouseCoords, clientY \in MouseCoords :
          handleMouseMove(clientX, clientY) /\ InPanRange(imagePosition')
                                            /\ UNCHANGED <<evalVars, gridVars, unitVars>>
    \/ handleMouseUp /\ UNCHANGED <<evalVars, gridVars, unitVars>>

SpecZoom == Init /\ [][ZoomNext]_vars

\* the events that call zoomIn, zoomOut and resetZoom
ZoomInEvent == ZoomInBtnClick \/ handleWheel(-1) \/ Keydown("+") \/ Keydown("=")
ZoomOutEvent == ZoomOutBtnClick \/ handleWheel(1) \/ handleWheel(0) \/ Keydown("-")
ResetZoomEvent == ResetZoomBtnClick \/ Keydown("0")

\* C25: after any sequence of zoom-in, zoom-out, reset, wheel and keyboard
\* events currentZoom is within [1, 4]; a zoom-in multiplies it by 1.5,
\* capped at 4; a zoom-out divides it by 1.5, floored at 1; a reset sets it
\* to 1 and imagePosition to (0, 0).
C25_ZoomStaysInRange ==
    /\ [](ZoomOne <= currentZoom /\ currentZoom <= 4 * ZoomOne)
    /\ [][ZoomInEvent =>
            \/ 2 * currentZoom' = 3 * currentZoom /\ currentZoom' <= 4 * ZoomOne
            \/ currentZoom' = 4 * ZoomOne /\ 3 * currentZoom >= 2 * 4 * ZoomOne]_vars
    /\ [][ZoomOutEvent =>
            \/ 3 * currentZoom' = 2 * currentZoom /\ currentZoom' >= ZoomOne
            \/ currentZoom' = ZoomOne /\ 2 * currentZoom <= 3 * ZoomOne]_vars
    /\ [][ResetZoomEvent =>
            currentZoom' = ZoomOne /\ imagePosition' = [x |-> 0, y |-> 0]]_vars

\* the annotated screenshot is shown at 4 / 1.5^3, which takes zooming in to
\* the cap and out three times, and has been panned
C25_Witness ==
    /\ screenshotContainer = "CANVAS"
    /\ 27 * currentZoom = 32 * ZoomOne
    /\ imagePosition # [x |-> 0, y |-> 0]

(***************************************************************************)
(* Specification SpecLive: the popup, with what the browser guarantees     *)
(* about the click handler's awaits: the capture promise settles, and the  *)
(* img of analyzeScreenshot fires a load or an error event.                *)
(***************************************************************************)
CaptureSettles == (\E bitmap \in PopupBitmaps : CaptureResolved(bitmap)) \/ CaptureRejected
ImgSettles == ImgOnload \/ ImgError

\* The last conjunct is WF_popupVars(ImgSettles) with
\* ENABLED <<ImgSettles>>_popupVars written out as clickPc = "decoding".
SpecLive ==
    /\ Spec
    /\ WF_popupVars(CaptureSettles)
    /\ ([]<>(clickPc # "decoding") \/ []<><<ImgSettles>>_popupVars)

\* C26: after every click on the analyze button the button is eventually
\* enabled again with its original label, whether capture, decoding and
\* analysis succeed or fail; while the button is disabled no second
\* analysis can be started, and a click handler is in flight only while it
\* is disabled.
C26_ButtonEventuallyReenabled ==
    /\ [](analyzeBtn.disabled => ~ENABLED ClickAnalyze)
    /\ [](clickPc # "idle" => analyzeBtn.disabled)
    /\ (analyzeBtn.disabled ~>
            (~analyzeBtn.disabled /\ analyzeBtn.textContent = "Analyze Current Page"))

\* a drag step or an arrow key
PanEvent ==
    \/ \E clientX \in MouseCoords, clientY \in MouseCoords :
          handleMouseMove(clientX, clientY)
    \/ \E key \in {"ArrowLeft", "ArrowRight", "ArrowUp", "ArrowDown"} : Keydown(key)

\* C27: panning is active only while zoomed in: isDragging implies
\* currentZoom > 1 in every reachable state, and a drag or an arrow key
\* changes imagePosition only in a state where currentZoom > 1.
C27_DragOnlyWhileZoomed ==
    /\ [](isDragging => currentZoom > ZoomOne)
    /\ [][(PanEvent /\ imagePosition' # imagePosition) => currentZoom > ZoomOne]_vars

\* C28: after every handler or analysis callback of the popup has run,
\* filteredWarnings is exactly the records of allWarnings with ratio >=
\* currentThreshold, in the order of allWarnings, whatever the sequence of
\* analyze clicks, completions, failures and slider inputs.
C28_FilteredMatchesThreshold ==
    filteredWarnings = AtLeast(allWarnings, currentThreshold)

\* a second analysis is under way after the slider was moved on the first
\* one's warnings: some of them are shown and some are hidden
C28_Witness ==
    /\ clickPc = "decoding"
    /\ currentScreenshot = "IMG"
    /\ originalImageData # NoImage
    /\ currentThreshold > 1000
    /\ Len(filteredWarnings) >= 1
    /\ Len(filteredWarnings) < Len(allWarnings)

(***************************************************************************)
(* Specification SpecApp: the React popup (src/App.tsx)                    *)
(*                                                                         *)
(* A state setter, the render it causes and the synchronous part of the    *)
(* effect that the render triggers are one step with the handler that      *)
(* called the setter.  imageUrl holds the captured screenshot as the bitmap*)
(* it decodes to.  queriesPending and capturesPending count the runs of    *)
(* handleCapture awaiting chrome.tabs.query and captureVisibleTab;         *)
(* analysesPending lists the images whose analyzeImage promise is pending. *)
(***************************************************************************)
\* runs of handleCapture in flight at once
MaxInFlight == 2

\* ANALYSIS_BLOCK_SIZE
AnalysisBlockSize == 16

\* the screenshots captureVisibleTab can deliver
AppBitmaps ==
    {Bitmap(16, 16, "vbands", <<Grey128, Grey100>>, 8),
     Bitmap(16, 16, "vbands", <<White>>, 1)}

\* s without its i-th element
RemoveAt(s, i) == SubSeq(s, 1, i - 1) \o SubSeq(s, i + 1, Len(s))

\* The effect on [imageUrl, analyzeImage], run after a render in which
\* imageUrl has changed to url: its synchronous part.
ImageUrlEffect(url) ==
    IF url = Null
    THEN /\ results' = Null
         /\ UNCHANGED <<isLoading, error, analysesPending>>
    ELSE /\ isLoading' = TRUE
         /\ error' = Null
         /\ analysesPending' = Append(analysesPending, ValueOf(url))
         /\ UNCHANGED results

\* the capture button (rendered while imageUrl is null, disabled={isLoading})
CaptureButtonDisabled == isLoading

\* handleCapture up to its first await; hasChrome: whether chrome.tabs exists
ClickCapture(hasChrome) ==
    /\ imageUrl = Null
    /\ ~CaptureButtonDisabled
    /\ IF ~hasChrome
       THEN /\ error' = NonNull("This feature requires the Chrome Extension environment.")
            /\ UNCHANGED queriesPending
       ELSE /\ queriesPending' = queriesPending + 1
            /\ UNCHANGED error
    /\ UNCHANGED <<imageUrl, isLoading, capturesPending, analysesPending, results>>

\* chrome.tabs.query resolves; hasTab: whether there is an active tab
QueryResolved(hasTab) ==
    /\ queriesPending > 0
    /\ queriesPending' = queriesPending - 1
    /\ IF hasTab
       THEN /\ isLoading' = TRUE
            /\ capturesPending' = capturesPending + 1
            /\ UNCHANGED error
       ELSE /\ error' = NonNull("Could not identify active tab.")
            /\ isLoading' = FALSE
            /\ UNCHANGED capturesPending
    /\ UNCHANGED <<imageUrl, analysesPending, results>>

\* chrome.tabs.query rejects: catch
QueryRejected ==
    /\ queriesPending > 0
    /\ queriesPending' = queriesPending - 1
    /\ error' = NonNull("capture error")
    /\ isLoading' = FALSE
    /\ UNCHANGED <<imageUrl, capturesPending, analysesPending, results>>

\* captureVisibleTab resolves with dataUrl: setImageUrl(dataUrl); a set to
\* the value already held causes no render and no effect
CaptureTabResolved(dataUrlBitmap) ==
    /\ capturesPending > 0
    /\ capturesPending' = capturesPending - 1
    /\ imageUrl' = NonNull(dataUrlBitmap)
    /\ IF imageUrl' # imageUrl
       THEN ImageUrlEffect(imageUrl')
       ELSE UNCHANGED <<isLoading, error, analysesPending, results>>
    /\ UNCHANGED queriesPending

\* captureVisibleTab rejects: catch
CaptureTabRejected ==
    /\ capturesPending > 0
    /\ capturesPending' = capturesPending - 1
    /\ error' = NonNull("capture error")
    /\ isLoading' = FALSE
    /\ UNCHANGED <<imageUrl, queriesPending, analysesPending, results>>

\* img.onload of the i-th pending analyzeImage: resolve(analysisResults),
\* then performAnalysis resumes: setResults, finally setIsLoading(false)
AnalysisResolved(i) ==
    /\ i \in DOMAIN analysesPending
    /\ results' = NonNull(gridAnalysis(analysesPending[i], AnalysisBlockSize))
    /\ isLoading' = FALSE
    /\ analysesPending' = RemoveAt(analysesPending, i)
    /\ UNCHANGED <<imageUrl, error, queriesPending, capturesPending>>

\* the i-th pending analyzeImage rejects (img.onerror, or no 2d context):
\* catch setError, finally setIsLoading(false)
AnalysisRejected(i) ==
    /\ i \in DOMAIN analysesPending
    /\ error' = NonNull("analysis error")
    /\ isLoading' = FALSE
    /\ analysesPending' = RemoveAt(analysesPending, i)
    /\ UNCHANGED <<imageUrl, results, queriesPending, capturesPending>>

\* handleReset, from the "Analyze New Page" button of AnalysisDisplay
\* (rendered while imageUrl is not null), and the effect that follows
handleReset ==
    /\ imageUrl # Null
    /\ imageUrl' = Null
    /\ results' = Null
    /\ error' = Null
    /\ UNCHANGED <<isLoading, queriesPending, capturesPending, analysesPending>>

appFrame == <<imageData, blockSize, gridPc, contrastThreshold, shownRedraw,
              shownAnalyze, shownDisplay, evalVars, popupVars, scoreVars, kmVars,
              regionVars, workerVars, domVars, scanVars>>

AppNext ==
    \/ \E hasChrome \in BOOLEAN :
          /\ queriesPending + capturesPending + Len(analysesPending) < MaxInFlight
          /\ ClickCapture(hasChrome) /\ UNCHANGED appFrame
    \/ \E hasTab \in BOOLEAN : QueryResolved(hasTab) /\ UNCHANGED appFrame
    \/ QueryRejected /\ UNCHANGED appFrame
    \/ \E dataUrlBitmap \in AppBitmaps :
          CaptureTabResolved(dataUrlBitmap) /\ UNCHANGED appFrame
    \/ CaptureTabRejected /\ UNCHANGED appFrame
    \/ \E i \in 1..MaxInFlight : AnalysisResolved(i) /\ UNCHANGED appFrame
    \/ \E i \in 1..MaxInFlight : AnalysisRejected(i) /\ UNCHANGED appFrame
    \/ handleReset /\ UNCHANGED appFrame

SpecApp == Init /\ [][AppNext]_vars

\* The promises settle: a pending tabs.query or captureVisibleTab resolves
\* or rejects, the img of a pending analyzeImage fires load or error.  The
\* last conjunct is weak fairness of the analyses' completion, its
\* enabling condition written out as analysesPending # <<>>.
QuerySettles == (\E hasTab \in BOOLEAN : QueryResolved(hasTab)) \/ QueryRejected
CaptureTabSettles ==
    (\E dataUrlBitmap \in AppBitmaps : CaptureTabResolved(dataUrlBitmap))
        \/ CaptureTabRejected
AnalysisSettles == \E i \in 1..MaxInFlight : AnalysisResolved(i) \/ AnalysisRejected(i)

SpecAppLive ==
    /\ SpecApp
    /\ WF_appVars(QuerySettles)
    /\ WF_appVars(CaptureTabSettles)
    /\ ([]<>(analysesPending = <<>>) \/ []<><<AnalysisSettles>>_appVars)

\* C29: whenever results is not null, imageUrl is not null and results is
\* the analysis of the image held in imageUrl; so after handleReset results
\* stays null until a new capture has been analysed, even when an analysis
\* started before the reset completes after it.
C29_ResultsBelongToCurrentImage ==
    results # Null =>
        /\ imageUrl # Null
        /\ results = NonNull(gridAnalysis(ValueOf(imageUrl), AnalysisBlockSize))

\* a run of handleCapture is awaiting captureVisibleTab, or an analysis is
\* pending
InFlight == capturesPending > 0 \/ analysesPending # <<>>

\* C30: isLoading is true in every state in which a capture or an analysis
\* is in flight; once every capture and analysis started has settled it
\* eventually becomes false; the capture button is disabled whenever
\* isLoading is true.
C30_LoadingWhileInFlight ==
    /\ [](InFlight => isLoading)
    /\ [](isLoading => CaptureButtonDisabled)
    /\ ((~InFlight /\ queriesPending = 0) ~> ~isLoading)

====
